---- MODULE Spec2Model ----
(***************************************************************************)
(* Streaming tool-call orchestration of python-mcp-client.                 *)
(*                                                                         *)
(* Two client classes are modelled:                                        *)
(*   "stdio"  MCPClient       (src/mcp_client.py)                          *)
(*   "http"   HTTPMCPClient   (src/mcp_http_client.py)                     *)
(* Spec       is one streaming cycle, process_query_with_context_stream    *)
(*            followed by _process_messages_stream, of either class.       *)
(* SpecQuery  is a sequence of MCPClient.process_query calls, which keep   *)
(*            conversation_history.                                        *)
(*                                                                         *)
(* Text is modelled as follows.  Ids, names and forwarded chunks are       *)
(* strings.  An arguments text is a sequence of characters, because it is  *)
(* parsed; the character "k" abbreviates one JSON member ("k": 1).         *)
(* Python's None and "" are both falsy where the code tests these fields,  *)
(* and both are written "" here; a missing index is NoIndex.               *)
(***************************************************************************)
EXTENDS Integers, Sequences, FiniteSets, TLC

(* ------------------------------ bounds ------------------------------- *)

\* tool-call fragments in one completion stream
MaxFrags == 2
\* tool-call fragments fed to the assembler on its own
MaxAsmFrags == 3
\* chunks without a tool-call fragment in one completion stream
MaxDeltas == 1
\* process_query calls on one client
MaxQueries == 2
\* text deltas in one completion stream of the forwarding specification
MaxFwdDeltas == 2
\* chunks read from the first streams of two interleaved cycles together
MaxPairChunks == 3
\* fragments of a stream whose every fragment is recorded
MaxRunFrags == 3

(* ------------------------------ inputs ------------------------------- *)

\* tool_call.index is None
NoIndex == -1

Indices == {NoIndex, 0, 1}
\* tool_call.id of a fragment: absent, or an explicit id
FragIds == {"", "c1"}
\* tool_call.function.name of a fragment
Names == {"", "f", "g"}
\* chunk.choices[0].delta.content
Texts == {"", "a"}
\* values time.time() * 1000 can return while one stream is read
TimeStamps == {0, 1}

\* what a fragment carries in tool_call.function: nothing, a name, an
\* arguments text, or both
Payloads ==
    {[name |-> "", arguments |-> << >>],
     [name |-> "f", arguments |-> << >>],
     [name |-> "g", arguments |-> << >>],
     [name |-> "", arguments |-> <<"{">>],
     [name |-> "", arguments |-> <<"k", "}">>],
     [name |-> "f", arguments |-> <<"{">>]}

\* the fragments the assembler is fed on its own
Frags ==
    {[index |-> i, id |-> d, name |-> p.name, arguments |-> p.arguments] :
        i \in Indices, d \in FragIds, p \in Payloads}

\* The fragments a whole cycle is run on: every field keeps an absent and a
\* present value, and two fragments can spell a parseable arguments text.
CycleFrags ==
    [index : {0, 1}, id : FragIds, name : {"", "f"},
     arguments : {<< >>, <<"{">>, <<"k", "}">>}]

\* the chunks of a completion stream: a content delta, or one fragment
Chunks ==
    [content : Texts, tool_calls : {<< >>}]
        \cup [content : {""}, tool_calls : {<<f>> : f \in CycleFrags}]

\* what session.call_tool does: a result with content, one without, a raise
ProviderOutcomes == {"content", "empty", "raise"}

\* values time.time() * 1000 returns in the cycles of Spec: every call is
\* started within the same millisecond
CycleTimeStamps == {0}

SystemTurn == [role |-> "system", content |-> "prompt"]
UserTurn == [role |-> "user", content |-> "q"]
AssistantTurn == [role |-> "assistant", content |-> "earlier answer"]

\* context_messages as the routes of app.py build them (role and content)
Contexts == {<<UserTurn, AssistantTurn, UserTurn>>}

(* --------------------------- pure helpers ---------------------------- *)

RECURSIVE Concat(_)
\* "".join(chunks)
Concat(chunks) ==
    IF chunks = << >> THEN "" ELSE Head(chunks) \o Concat(Tail(chunks))

\* f"call_{len(tool_calls)}_{int(time.time() * 1000)}"
SynthId(n, t) == "call_" \o ToString(n) \o "_" \o ToString(t)

\* a new tool call started by every fragment that carries an index
StartsNewEveryIndexed(cur, curidx, idx) ==
    \/ cur = << >>
    \/ idx # NoIndex

\* the condition under which MCPClient starts a new tool call
StartsNewStdio(cur, curidx, idx) ==
    \/ cur = << >>
    \/ (idx # NoIndex /\ curidx = NoIndex)
    \/ (idx # NoIndex /\ idx # curidx)

\* a start on any difference between the active index and the fragment's,
\* an absent index included
StartsNewHttpAnyChange(cur, curidx, idx) ==
    \/ cur = << >>
    \/ curidx # idx

\* the condition under which HTTPMCPClient starts a new tool call
StartsNewHttp(cur, curidx, idx) ==
    \/ cur = << >>
    \/ (idx # NoIndex /\ curidx # idx)

StartsNew(v, cur, curidx, idx) ==
    IF v = "stdio" THEN StartsNewStdio(cur, curidx, idx)
    ELSE StartsNewHttp(cur, curidx, idx)

\* the dict built for a new tool call
NewToolCall(frag, n, t) ==
    [id |-> IF frag.id # "" THEN frag.id ELSE SynthId(n, t),
     name |-> frag.name,
     arguments |-> frag.arguments]

ContinueNameLast(call, frag) == IF frag.name # "" THEN frag.name ELSE call.name

\* ContinueToolCall keeping the first name it was given
ContinueToolCallFirstName(call, frag) ==
    [id |-> call.id,
     name |-> IF call.name # "" THEN call.name ELSE frag.name,
     arguments |-> call.arguments \o frag.arguments]

\* continuation of the active tool call: the name is overwritten, the
\* arguments are appended
ContinueToolCall(call, frag) ==
    [id |-> call.id,
     name |-> ContinueNameLast(call, frag),
     arguments |-> call.arguments \o frag.arguments]

\* One fragment of delta.tool_calls.  a = [tool_calls, cur, idx] is the
\* assembler's working state: the finalized calls, the active call (a
\* sequence of length 0 or 1) and the active index.
AssembleFragment(v, a, frag, t) ==
    IF StartsNew(v, a.cur, a.idx, frag.index)
    THEN LET pushed == a.tool_calls \o a.cur
         IN  [tool_calls |-> pushed,
              cur |-> <<NewToolCall(frag, Len(pushed), t)>>,
              idx |-> frag.index]
    ELSE [tool_calls |-> a.tool_calls,
          cur |-> <<ContinueToolCall(a.cur[1], frag)>>,
          idx |-> a.idx]

\* "Add final tool call if any"
FinalizeCalls(a) == a.tool_calls \o a.cur

\* position of id in a sequence of calls, 0 if absent
PosOfId(calls, id) ==
    IF \E i \in 1..Len(calls) : calls[i].id = id
    THEN CHOOSE i \in 1..Len(calls) :
            calls[i].id = id /\ \A j \in 1..(i - 1) : calls[j].id # id
    ELSE 0

\* MergeInto taking the later name whenever it is non-empty
MergeIntoLastName(u, tc) ==
    [id |-> u.id,
     name |-> IF tc.name # "" THEN tc.name ELSE u.name,
     arguments |-> u.arguments \o tc.arguments]

\* the merge of a repeated id into the entry that `unique` already holds
MergeInto(u, tc) ==
    [id |-> u.id,
     name |-> IF u.name = "" /\ tc.name # "" THEN tc.name ELSE u.name,
     arguments |-> u.arguments \o tc.arguments]

RECURSIVE DedupFrom(_, _)
\* the loop over tool_calls that fills the dict `unique` (insertion ordered)
DedupFrom(calls, unique) ==
    IF calls = << >> THEN unique
    ELSE LET tc == Head(calls)
             p == PosOfId(unique, tc.id)
         IN  IF p = 0
             THEN DedupFrom(Tail(calls), Append(unique, tc))
             ELSE DedupFrom(Tail(calls),
                            [unique EXCEPT ![p] = MergeInto(unique[p], tc)])

\* the values of `unique` listed newest first
DeduplicateNewestFirst(calls) ==
    LET u == DedupFrom(calls, << >>)
    IN  [i \in 1..Len(u) |-> u[Len(u) + 1 - i]]

\* Deduplicate left out
DeduplicateNothing(calls) == calls

\* "Deduplicate tool_calls by id": tool_calls = list(unique.values())
Deduplicate(calls) == DedupFrom(calls, << >>)

\* what the first stream hands to the dispatcher: only MCPClient deduplicates
FinalToolCalls(v, a) ==
    IF v = "stdio" THEN Deduplicate(FinalizeCalls(a)) ELSE FinalizeCalls(a)

(* ----------------------------- dispatcher ---------------------------- *)

\* not tool_args_str or tool_args_str.strip() == ""
IsBlank(s) == \A i \in 1..Len(s) : s[i] = " "

NotSpace(c) == c # " "

\* json.loads on the texts the characters "{", "k", "}" and " " can spell:
\* whitespace around the tokens is skipped, "{}" and "{k}" are the only
\* documents, anything else raises json.JSONDecodeError
JsonLoads(s) ==
    LET tokens == SelectSeq(s, NotSpace)
    IN  IF tokens = <<"{", "}">> THEN [ok |-> TRUE, value |-> {}]
        ELSE IF tokens = <<"{", "k", "}">> THEN [ok |-> TRUE, value |-> {"k"}]
        ELSE [ok |-> FALSE, value |-> {}]

ToolTurn(id, content) == [role |-> "tool", tool_call_id |-> id, content |-> content]

ParseErrorText(name) == "Error parsing tool arguments for " \o name
ExecErrorText(name) == "Error executing tool " \o name

\* the content MCPClient stores for an awaited session.call_tool result
StdioResultText(outcome) ==
    IF outcome = "content" THEN "tool output" ELSE "No content returned"

\* the string HTTPMCPClient.call_tool returns; it catches its own failures
HttpResultText(outcome) ==
    IF outcome = "content" THEN "tool output"
    ELSE IF outcome = "empty" THEN "API error"
    ELSE "API call failed"

ErrorTexts ==
    {ParseErrorText(n) : n \in Names} \cup {ExecErrorText(n) : n \in Names}
        \cup {"API error", "API call failed"}

\* session.call_tool of MCPClient, and the content read from its result
StdioProvider(outcome) ==
    IF outcome = "raise" THEN "raise" ELSE StdioResultText(outcome)

\* HTTPMCPClient.call_tool with a session: every failure comes back as text
HttpProvider(outcome) == HttpResultText(outcome)

\* what the awaited tool call gives the dispatcher: a text, or "raise"
ProviderResult(v, outcome) ==
    IF v = "stdio" THEN StdioProvider(outcome) ELSE HttpProvider(outcome)

\* TryDispatch without the test for blank arguments: json.loads always
TryDispatchAlwaysParses(v, tc, outcome) ==
    IF tc.name = "" THEN [calls |-> << >>, ends |-> "skip", content |-> ""]
    ELSE LET parsed == JsonLoads(tc.arguments)
             call == [id |-> tc.id, name |-> tc.name, args |-> parsed.value]
         IN  IF ~parsed.ok
             THEN [calls |-> << >>, ends |-> "JSONDecodeError", content |-> ""]
             ELSE IF ProviderResult(v, outcome) = "raise"
             THEN [calls |-> <<call>>, ends |-> "Exception", content |-> ""]
             ELSE [calls |-> <<call>>, ends |-> "result",
                   content |-> ProviderResult(v, outcome)]

\* The try body of one iteration of "for tool_call in tool_calls": the
\* provider calls made (0 or 1) and how the body ends: "skip" (continue on
\* an empty name), "JSONDecodeError", "Exception", or "result" with content.
TryDispatch(v, tc, outcome) ==
    IF tc.name = "" THEN [calls |-> << >>, ends |-> "skip", content |-> ""]
    ELSE LET parsed == IF IsBlank(tc.arguments) THEN [ok |-> TRUE, value |-> {}]
                       ELSE JsonLoads(tc.arguments)
             call == [id |-> tc.id, name |-> tc.name, args |-> parsed.value]
         IN  IF ~parsed.ok
             THEN [calls |-> << >>, ends |-> "JSONDecodeError", content |-> ""]
             ELSE IF ProviderResult(v, outcome) = "raise"
             THEN [calls |-> <<call>>, ends |-> "Exception", content |-> ""]
             ELSE [calls |-> <<call>>, ends |-> "result",
                   content |-> ProviderResult(v, outcome)]

\* HandleStdio without "except json.JSONDecodeError" and with "except
\* Exception" narrowed so that a parse failure leaves the loop
HandleStdioParseEscapes(tc, b) ==
    [calls |-> b.calls,
     results |->
        IF b.ends = "result" THEN <<ToolTurn(tc.id, b.content)>>
        ELSE IF b.ends = "Exception"
             THEN <<ToolTurn(tc.id, ExecErrorText(tc.name))>>
        ELSE << >>,
     escapes |-> b.ends = "JSONDecodeError"]

\* The except clauses of MCPClient's dispatch loop applied to the end b of
\* the try body: the tool results appended (0 or 1), and whether an
\* exception leaves the loop.  "except json.JSONDecodeError" and
\* "except Exception" between them catch every end.
HandleStdio(tc, b) ==
    [calls |-> b.calls,
     results |->
        IF b.ends = "result" THEN <<ToolTurn(tc.id, b.content)>>
        ELSE IF b.ends = "JSONDecodeError"
             THEN <<ToolTurn(tc.id, ParseErrorText(tc.name))>>
        ELSE IF b.ends = "Exception"
             THEN <<ToolTurn(tc.id, ExecErrorText(tc.name))>>
        ELSE << >>,
     escapes |-> FALSE]

\* DispatchStdio without "if not tool_name: continue"
DispatchStdioNoSkip(tc, outcome) ==
    IF tc.name = ""
    THEN [calls |-> <<[id |-> tc.id, name |-> tc.name, args |-> {}]>>,
          results |-> <<ToolTurn(tc.id, ExecErrorText(tc.name))>>,
          escapes |-> FALSE]
    ELSE HandleStdio(tc, TryDispatch("stdio", tc, outcome))

\* DispatchStdio without "except Exception"
DispatchStdioNoCatch(tc, outcome) ==
    LET b == TryDispatch("stdio", tc, outcome)
    IN  IF b.ends = "Exception"
        THEN [calls |-> b.calls, results |-> << >>, escapes |-> TRUE]
        ELSE HandleStdio(tc, b)

\* DispatchStdio recording nothing for arguments that fail to parse
DispatchStdioDropsParseError(tc, outcome) ==
    LET b == TryDispatch("stdio", tc, outcome)
    IN  IF b.ends = "JSONDecodeError"
        THEN [calls |-> b.calls, results |-> << >>, escapes |-> FALSE]
        ELSE HandleStdio(tc, b)

\* one iteration of the dispatch loop of MCPClient
DispatchStdio(tc, outcome) ==
    HandleStdio(tc, TryDispatch("stdio", tc, outcome))

\* The same iteration in HTTPMCPClient: one "except Exception" clause.
DispatchHttp(tc, outcome) ==
    LET b == TryDispatch("http", tc, outcome)
    IN  [calls |-> b.calls,
         results |->
            IF b.ends = "result" THEN <<ToolTurn(tc.id, b.content)>>
            ELSE IF b.ends \in {"JSONDecodeError", "Exception"}
                 THEN <<ToolTurn(tc.id, ExecErrorText(tc.name))>>
            ELSE << >>,
         escapes |-> FALSE]

DispatchIntent(v, tc, outcome) ==
    IF v = "stdio" THEN DispatchStdio(tc, outcome) ELSE DispatchHttp(tc, outcome)

\* ToolPhase entered whatever the stream held
ToolPhaseAlways(calls) == TRUE

\* "if tool_calls:" after the first stream: the tool phase is entered
ToolPhase(calls) == calls # << >>

(* ---------------------------- turn builder --------------------------- *)

HasName(tc) == tc.name # ""

\* the entry of formatted_tool_calls built from a named tool call
FormatToolCall(tc) ==
    [id |-> tc.id, name |-> tc.name,
     arguments |-> IF tc.arguments = << >> THEN <<"{", "}">> ELSE tc.arguments]

\* FormattedToolCalls without "Ensure name exists"
FormattedToolCallsAll(calls) ==
    [i \in 1..Len(calls) |-> FormatToolCall(calls[i])]

RECURSIVE FormattedToolCalls(_)
\* formatted_tool_calls: the calls without a name are left out
FormattedToolCalls(calls) ==
    IF calls = << >> THEN << >>
    ELSE IF HasName(Head(calls))
         THEN <<FormatToolCall(Head(calls))>> \o FormattedToolCalls(Tail(calls))
         ELSE FormattedToolCalls(Tail(calls))

AssistantWithTools(calls) ==
    [role |-> "assistant", content |-> "", tool_calls |-> calls]

IdSet(calls) == {calls[i].id : i \in 1..Len(calls)}

RECURSIVE ValidResults(_, _)
\* the tool results whose tool_call_id is in valid_ids
ValidResults(results, valid_ids) ==
    IF results = << >> THEN << >>
    ELSE IF Head(results).tool_call_id \in valid_ids
         THEN <<Head(results)>> \o ValidResults(Tail(results), valid_ids)
         ELSE ValidResults(Tail(results), valid_ids)

\* FinalMessagesStdio appending the assistant turn after the tool results
FinalMessagesStdioResultsFirst(msgs, calls, results) ==
    LET formatted == FormattedToolCalls(calls)
    IN  msgs \o ValidResults(results, IdSet(formatted))
             \o <<AssistantWithTools(formatted)>>

\* the caller's list seen through an alias: final_messages = messages
MessagesAliased(msgs, fm) == fm

\* "final_messages = messages.copy()": the list the caller passed, once the
\* turns of fm have been appended to the copy
MessagesAfterCopy(msgs, fm) == msgs

\* final_messages of MCPClient._process_messages_stream
FinalMessagesStdio(msgs, calls, results) ==
    LET formatted == FormattedToolCalls(calls)
    IN  msgs \o <<AssistantWithTools(formatted)>>
             \o ValidResults(results, IdSet(formatted))

\* final_messages of HTTPMCPClient._process_messages_stream
FinalMessagesHttp(msgs, calls, results) ==
    msgs \o <<AssistantWithTools(calls)>> \o results

FinalMessages(v, msgs, calls, results) ==
    IF v = "stdio" THEN FinalMessagesStdio(msgs, calls, results)
    ELSE FinalMessagesHttp(msgs, calls, results)

(* ------------------- the flow the tests validate --------------------- *)

\* position of the nearest assistant turn before position i, 0 if none
PrecedingAssistant(msgs, i) ==
    IF \E j \in 1..(i - 1) : msgs[j].role = "assistant"
    THEN CHOOSE j \in 1..(i - 1) :
            /\ msgs[j].role = "assistant"
            /\ \A k \in (j + 1)..(i - 1) : msgs[k].role # "assistant"
    ELSE 0

\* message.get('tool_calls') is truthy
HasToolCalls(m) == "tool_calls" \in DOMAIN m /\ m.tool_calls # << >>

\* validate_conversation_flow returns True
ValidFlow(msgs) ==
    \A i \in 1..Len(msgs) :
        msgs[i].role = "tool" =>
            LET j == PrecedingAssistant(msgs, i)
            IN  /\ j # 0
                /\ HasToolCalls(msgs[j])
                /\ msgs[i].tool_call_id \in IdSet(msgs[j].tool_calls)

(* ------------------------------- state -------------------------------- *)

VARIABLES
    variant,              \* which client class runs the cycle
    session,              \* self.session is set
    messages,             \* the messages argument of _process_messages_stream
    pc,                   \* where the generator stands
    failure,              \* what raised into the except clause of the cycle
    out,                  \* the chunks yielded to the caller, in order
    full_response,        \* full_response
    tool_calls,           \* tool_calls
    current_tool_call,    \* current_tool_call: << >> is None
    current_tool_index,   \* current_tool_index
    tool_results,         \* tool_results
    di,                   \* position of the dispatch loop in tool_calls
    final_messages,       \* final_messages
    requests,             \* the completion requests issued: messages, tools
    provider_calls,       \* the tool provider invocations, in order
    assembled,            \* tool_calls as it stood before deduplication
    recv1,                \* content of the chunks read from the first stream
    recv2,                \* content of the chunks read from the second stream
    nfrags,               \* number of fragments read from the first stream
    frag_indices,         \* the indices of the fragments fed to the assembler
    frag_args,            \* concatenation of every arguments fragment fed
    frag_name,            \* last non-empty name fragment fed
    fed,                  \* the fragments fed to the assembler, in order
    frags2,               \* tool-call fragments SpecFwd read in the second stream
    conversation_history, \* self.conversation_history of MCPClient
    q_pc,                 \* where process_query stands
    q_calls,              \* response_message.tool_calls of the running query
    q_i,                  \* position of the tool loop in q_calls
    q_final_messages,     \* final_messages of the running query
    q_requests,           \* the completion requests process_query issued
    q_provider_calls,     \* the tool provider invocations of process_query
    q_returned,           \* what each finished process_query returned
    q_count,              \* number of process_query calls started
    q_base,               \* conversation_history when the last query started
    q_failure,            \* what raised into the except clause of the query
    stored,               \* the assistant answer send_message_stream saved
    events,               \* the events a streaming route has sent, in order
    route_pc,             \* which streaming route runs; "ended" when it is over
    cyc,                  \* two cycles on one client: each one's working lists
    io,                   \* two cycles: position, chunks read, chunks forwarded
    running,              \* two cycles: the one that runs, 0 when both wait
    qq,                   \* two process_query calls: position, calls, loop index
    q_update,             \* update_history of the running _process_messages
    conn                  \* HTTPMCPClient: session, the sessions opened and
                          \* not closed, their number, the last call's result

cycle_vars ==
    <<variant, session, messages, pc, failure, out, full_response, tool_calls,
      current_tool_call, current_tool_index, tool_results, di, final_messages,
      requests, provider_calls, assembled, recv1, recv2, nfrags>>

\* cycle_vars without messages
cycle_rest ==
    <<variant, session, pc, failure, out, full_response, tool_calls,
      current_tool_call, current_tool_index, tool_results, di, final_messages,
      requests, provider_calls, assembled, recv1, recv2, nfrags>>

asm_ghosts == <<frag_indices, frag_args, frag_name, fed, frags2>>

query_vars ==
    <<conversation_history, q_pc, q_calls, q_i, q_final_messages, q_requests,
      q_provider_calls, q_returned, q_count, q_base, q_failure>>

route_vars == <<stored, events, route_pc>>

pair_vars == <<cyc, io, running>>

client_vars == <<qq, q_update, conn>>

\* a process_query call that has not started
IdleQuery == [pc |-> "idle", calls |-> << >>, i |-> 1]

\* HTTPMCPClient after __init__: session is None (0), no aiohttp session
\* was opened, no call has returned
NoConnection == [session |-> 0, unclosed |-> {}, opened |-> 0, last |-> ""]

Cycles == {1, 2}

\* tool_calls = [], current_tool_call = None, current_tool_index = None
EmptyAsm == [tool_calls |-> << >>, cur |-> << >>, idx |-> NoIndex]

EmptyWork == [asm |-> EmptyAsm, results |-> << >>]

EmptyIo ==
    [pc |-> "idle", di |-> 1, in1 |-> << >>, outcomes |-> << >>, out |-> << >>,
     recv2 |-> << >>, sent |-> << >>]

vars == <<cycle_vars, asm_ghosts, query_vars, route_vars, pair_vars, client_vars>>

NotConnectedText == "Error: Not connected to MCP server"
CycleErrorText == "Error processing query: "
MarkerText == "\n\n*Processing tool calls...*\n"

Init ==
    /\ variant \in {"stdio", "http"}
    /\ session \in BOOLEAN
    /\ messages = << >>
    /\ pc = "idle"
    /\ failure = ""
    /\ out = << >>
    /\ full_response = ""
    /\ tool_calls = << >>
    /\ current_tool_call = << >>
    /\ current_tool_index = NoIndex
    /\ tool_results = << >>
    /\ di = 1
    /\ final_messages = << >>
    /\ requests = << >>
    /\ provider_calls = << >>
    /\ assembled = << >>
    /\ recv1 = << >>
    /\ recv2 = << >>
    /\ nfrags = 0
    /\ frag_indices = {}
    /\ frag_args = << >>
    /\ frag_name = ""
    /\ fed = << >>
    /\ frags2 = 0
    /\ conversation_history = << >>
    /\ q_pc = "idle"
    /\ q_calls = << >>
    /\ q_i = 1
    /\ q_final_messages = << >>
    /\ q_requests = << >>
    /\ q_provider_calls = << >>
    /\ q_returned = << >>
    /\ q_count = 0
    /\ q_base = << >>
    /\ q_failure = ""
    /\ stored = << >>
    /\ events = << >>
    /\ route_pc = "idle"
    /\ cyc = [c \in Cycles |-> EmptyWork]
    /\ io = [c \in Cycles |-> EmptyIo]
    /\ running = 0
    /\ qq = [c \in Cycles |-> IdleQuery]
    /\ q_update = TRUE
    /\ conn = NoConnection

(* ------------------------ the streaming cycle ------------------------- *)

\* the except clause of _process_messages_stream yielding nothing
RaiseInCycleSilent(what) ==
    /\ out' = out
    /\ failure' = what
    /\ pc' = "done"

\* an except clause that swallows the error and resumes where the cycle was
RaiseInCycleResumes(what) ==
    /\ out' = out
    /\ failure' = IF failure = what THEN "" ELSE what
    /\ pc' = pc

\* an except clause that yields the error chunk and then goes on to the
\* tool phase with what was assembled
RaiseInCycleContinues(what) ==
    /\ out' = Append(out, CycleErrorText)
    /\ failure' = what
    /\ pc' = "dispatch"

\* the except clause of _process_messages_stream: one error chunk, the end
RaiseInCycle(what) ==
    /\ out' = Append(out, CycleErrorText)
    /\ failure' = what
    /\ pc' = "done"

\* process_query_with_context_stream without a session
NotConnected ==
    /\ pc = "idle"
    /\ ~session
    /\ out' = Append(out, NotConnectedText)
    /\ pc' = "done"
    /\ UNCHANGED <<variant, session, messages, failure, full_response,
                   tool_calls, current_tool_call, current_tool_index,
                   tool_results, di, final_messages, requests, provider_calls,
                   assembled, recv1, recv2, nfrags>>
    /\ UNCHANGED <<asm_ghosts, query_vars, route_vars, pair_vars, client_vars>>

\* process_query_with_context_stream up to the first completion request
FirstRequest ==
    /\ pc = "idle"
    /\ session
    /\ \E context \in Contexts :
          /\ messages' = <<SystemTurn>> \o context
          /\ requests' = Append(requests,
                                [messages |-> <<SystemTurn>> \o context,
                                 tools |-> TRUE])
    /\ pc' = "first"
    /\ UNCHANGED <<variant, session, failure, out, full_response, tool_calls,
                   current_tool_call, current_tool_index, tool_results, di,
                   final_messages, provider_calls, assembled, recv1, recv2,
                   nfrags>>
    /\ UNCHANGED <<asm_ghosts, query_vars, route_vars, pair_vars, client_vars>>

\* the first completions.create raises
FirstRequestRaises ==
    /\ pc = "idle"
    /\ session
    /\ \E context \in Contexts : messages' = <<SystemTurn>> \o context
    /\ RaiseInCycle("first request")
    /\ UNCHANGED <<variant, session, full_response, tool_calls,
                   current_tool_call, current_tool_index, tool_results, di,
                   final_messages, requests, provider_calls, assembled, recv1,
                   recv2, nfrags>>
    /\ UNCHANGED <<asm_ghosts, query_vars, route_vars, pair_vars, client_vars>>

\* "if chunk.choices[0].delta.content: yield content" forwarding every
\* delta, the empty ones too
ForwardedAlways(content) == <<content>>

\* "if chunk.choices[0].delta.content: yield content": what is yielded
Forwarded(content) == IF content # "" THEN <<content>> ELSE << >>

\* a first loop that invokes a tool as soon as its call is complete
FirstChunkStepEager(chunk) ==
    /\ recv1' = IF chunk.tool_calls = << >> THEN Append(recv1, chunk.content)
                ELSE recv1
    /\ full_response' = Concat(<<full_response>> \o Forwarded(chunk.content))
    /\ out' = out \o Forwarded(chunk.content)
    /\ IF chunk.tool_calls = << >>
       THEN UNCHANGED <<tool_calls, current_tool_call, current_tool_index,
                        nfrags, provider_calls>>
       ELSE \E t \in CycleTimeStamps :
              LET frag == chunk.tool_calls[1]
                  a == AssembleFragment(variant,
                           [tool_calls |-> tool_calls,
                            cur |-> current_tool_call,
                            idx |-> current_tool_index], frag, t)
                  call == a.cur[1]
              IN  /\ tool_calls' = a.tool_calls
                  /\ current_tool_call' = a.cur
                  /\ current_tool_index' = a.idx
                  /\ nfrags' = nfrags + 1
                  /\ provider_calls' =
                        IF call.name # "" /\ JsonLoads(call.arguments).ok
                        THEN Append(provider_calls,
                                    [id |-> call.id, name |-> call.name,
                                     args |-> JsonLoads(call.arguments).value,
                                     outcome |-> "content"])
                        ELSE provider_calls
    /\ UNCHANGED <<variant, session, messages, pc, failure, tool_results, di,
                   final_messages, requests, assembled, recv2>>

\* the body of "for chunk in stream" on one chunk: a content delta is
\* yielded, a tool-call fragment goes to the assembler
FirstChunkStep(chunk) ==
    /\ recv1' = IF chunk.tool_calls = << >> THEN Append(recv1, chunk.content)
                ELSE recv1
    /\ full_response' = Concat(<<full_response>> \o Forwarded(chunk.content))
    /\ out' = out \o Forwarded(chunk.content)
    /\ IF chunk.tool_calls = << >>
       THEN UNCHANGED <<tool_calls, current_tool_call, current_tool_index,
                        nfrags>>
       ELSE \E t \in CycleTimeStamps :
              LET frag == chunk.tool_calls[1]
                  a == AssembleFragment(variant,
                           [tool_calls |-> tool_calls,
                            cur |-> current_tool_call,
                            idx |-> current_tool_index], frag, t)
              IN  /\ tool_calls' = a.tool_calls
                  /\ current_tool_call' = a.cur
                  /\ current_tool_index' = a.idx
                  /\ nfrags' = nfrags + 1
    /\ UNCHANGED <<variant, session, messages, pc, failure, tool_results, di,
                   final_messages, requests, provider_calls, assembled, recv2>>

\* one iteration of "for chunk in stream"
FirstChunk ==
    /\ pc = "first"
    /\ \E chunk \in Chunks :
          /\ IF chunk.tool_calls = << >>
             THEN Len(recv1) < MaxDeltas
             ELSE nfrags < MaxFrags
          /\ FirstChunkStep(chunk)
    /\ UNCHANGED <<asm_ghosts, query_vars, route_vars, pair_vars, client_vars>>

\* the first stream raises while it is read
FirstStreamRaises ==
    /\ pc = "first"
    /\ RaiseInCycle("first stream")
    /\ UNCHANGED <<variant, session, messages, full_response, tool_calls,
                   current_tool_call, current_tool_index, tool_results, di,
                   final_messages, requests, provider_calls, assembled, recv1,
                   recv2, nfrags>>
    /\ UNCHANGED <<asm_ghosts, query_vars, route_vars, pair_vars, client_vars>>

\* the first stream is exhausted: the last call is added, the calls are
\* deduplicated, and with calls the status chunk is yielded
FirstStreamEnds ==
    /\ pc = "first"
    /\ LET a == [tool_calls |-> tool_calls, cur |-> current_tool_call,
                 idx |-> current_tool_index]
           final == FinalToolCalls(variant, a)
       IN  /\ assembled' = FinalizeCalls(a)
           /\ tool_calls' = final
           /\ IF ToolPhase(final)
              THEN /\ out' = Append(out, MarkerText)
                   /\ pc' = "dispatch"
              ELSE /\ out' = out
                   /\ pc' = "done"
    /\ UNCHANGED <<variant, session, messages, failure, full_response,
                   current_tool_call, current_tool_index, tool_results, di,
                   final_messages, requests, provider_calls, recv1, recv2,
                   nfrags>>
    /\ UNCHANGED <<asm_ghosts, query_vars, route_vars, pair_vars, client_vars>>

\* one iteration of "for tool_call in tool_calls"
DispatchOne ==
    /\ pc = "dispatch"
    /\ di <= Len(tool_calls)
    /\ \E outcome \in ProviderOutcomes :
          LET d == DispatchIntent(variant, tool_calls[di], outcome)
          IN  /\ tool_results' = tool_results \o d.results
              /\ provider_calls' = provider_calls \o
                    [i \in 1..Len(d.calls) |->
                        [id |-> d.calls[i].id, name |-> d.calls[i].name,
                         args |-> d.calls[i].args, outcome |-> outcome]]
              /\ IF d.escapes
                 THEN RaiseInCycle("tool")
                 ELSE UNCHANGED <<out, failure, pc>>
    /\ di' = di + 1
    /\ UNCHANGED <<variant, session, messages, full_response, tool_calls,
                   current_tool_call, current_tool_index, final_messages,
                   requests, assembled, recv1, recv2, nfrags>>
    /\ UNCHANGED <<asm_ghosts, query_vars, route_vars, pair_vars, client_vars>>

\* final_messages is built and the second completion request is issued
SecondRequest ==
    /\ pc = "dispatch"
    /\ di > Len(tool_calls)
    /\ LET fm == FinalMessages(variant, messages, tool_calls, tool_results)
       IN  /\ final_messages' = fm
           /\ messages' = MessagesAfterCopy(messages, fm)
           /\ requests' = Append(requests, [messages |-> fm, tools |-> FALSE])
    /\ pc' = "second"
    /\ UNCHANGED <<variant, session, failure, out, full_response,
                   tool_calls, current_tool_call, current_tool_index,
                   tool_results, di, provider_calls, assembled, recv1, recv2,
                   nfrags>>
    /\ UNCHANGED <<asm_ghosts, query_vars, route_vars, pair_vars, client_vars>>

\* the second completions.create raises
SecondRequestRaises ==
    /\ pc = "dispatch"
    /\ di > Len(tool_calls)
    /\ LET fm == FinalMessages(variant, messages, tool_calls, tool_results)
       IN  /\ final_messages' = fm
           /\ messages' = MessagesAfterCopy(messages, fm)
    /\ RaiseInCycle("second request")
    /\ UNCHANGED <<variant, session, full_response, tool_calls,
                   current_tool_call, current_tool_index, tool_results, di,
                   requests, provider_calls, assembled, recv1, recv2,
                   nfrags>>
    /\ UNCHANGED <<asm_ghosts, query_vars, route_vars, pair_vars, client_vars>>

\* The chunks of the second stream.  The loop over it reads delta.content
\* only, so one chunk with a tool-call fragment stands for all of them.
SecondChunks ==
    {c \in Chunks :
        \/ c.tool_calls = << >>
        \/ c.tool_calls[1] =
              [index |-> 0, id |-> "c1", name |-> "f", arguments |-> <<"{">>]}

\* a second loop that invokes the tool a fragment names
SecondChunkStepInvokes(chunk) ==
    /\ recv2' = Append(recv2, chunk.content)
    /\ out' = out \o Forwarded(chunk.content)
    /\ provider_calls' =
          provider_calls \o
             [i \in 1..Len(chunk.tool_calls) |->
                 [id |-> chunk.tool_calls[i].id, name |-> chunk.tool_calls[i].name,
                  args |-> {}, outcome |-> "content"]]
    /\ UNCHANGED <<variant, session, messages, pc, failure, full_response,
                   tool_calls, current_tool_call, current_tool_index,
                   tool_results, di, final_messages, requests,
                   assembled, recv1, nfrags>>

\* the body of "for chunk in final_stream" on one chunk: only content is read
SecondChunkStep(chunk) ==
    /\ recv2' = Append(recv2, chunk.content)
    /\ out' = out \o Forwarded(chunk.content)
    /\ UNCHANGED <<variant, session, messages, pc, failure, full_response,
                   tool_calls, current_tool_call, current_tool_index,
                   tool_results, di, final_messages, requests, provider_calls,
                   assembled, recv1, nfrags>>

\* one iteration of "for chunk in final_stream"
SecondChunk ==
    /\ pc = "second"
    /\ Len(recv2) < MaxDeltas
    /\ \E chunk \in SecondChunks : SecondChunkStep(chunk)
    /\ UNCHANGED <<asm_ghosts, query_vars, route_vars, pair_vars, client_vars>>

\* the second stream raises while it is read
SecondStreamRaises ==
    /\ pc = "second"
    /\ RaiseInCycle("second stream")
    /\ UNCHANGED <<variant, session, messages, full_response, tool_calls,
                   current_tool_call, current_tool_index, tool_results, di,
                   final_messages, requests, provider_calls, assembled, recv1,
                   recv2, nfrags>>
    /\ UNCHANGED <<asm_ghosts, query_vars, route_vars, pair_vars, client_vars>>

\* the second stream is exhausted: the generator returns
SecondStreamEnds ==
    /\ pc = "second"
    /\ pc' = "done"
    /\ UNCHANGED <<variant, session, messages, failure, out, full_response,
                   tool_calls, current_tool_call, current_tool_index,
                   tool_results, di, final_messages, requests, provider_calls,
                   assembled, recv1, recv2, nfrags>>
    /\ UNCHANGED <<asm_ghosts, query_vars, route_vars, pair_vars, client_vars>>

Next ==
    \/ NotConnected
    \/ FirstRequest
    \/ FirstRequestRaises
    \/ FirstChunk
    \/ FirstStreamRaises
    \/ FirstStreamEnds
    \/ DispatchOne
    \/ SecondRequest
    \/ SecondRequestRaises
    \/ SecondChunk
    \/ SecondStreamRaises
    \/ SecondStreamEnds

Spec == Init /\ [][Next]_vars

(* ------------------- the cycle as its caller sees it ------------------ *)

\* The cycle on streams of distinguishable text deltas, with at most one
\* tool call, together with what the caller does with the generator:
\* send_message_stream closes it and saves the answer it has aggregated.

FwdTexts == {"", "a", "b"}

FwdFragment ==
    [index |-> 0, id |-> "c1", name |-> "f", arguments |-> <<"{", "}">>]

FwdChunks ==
    [content : FwdTexts, tool_calls : {<< >>}]
        \cup {[content |-> "", tool_calls |-> <<FwdFragment>>]}

\* "except Exception" catching whatever is thrown into the generator
CycleHandlerCatchesAll(exc) == TRUE

\* "except Exception as e" of _process_messages_stream: GeneratorExit, which
\* closing the generator throws at its yield, is not an Exception
CycleHandlerCatches(exc) == exc # "GeneratorExit"

\* assistant_content of send_message_stream: every chunk is appended
AssistantContent(chunks) == Concat(chunks)

\* one iteration of "for chunk in stream"
FwdFirstChunk ==
    /\ pc = "first"
    /\ \E chunk \in FwdChunks :
          /\ IF chunk.tool_calls = << >>
             THEN Len(recv1) < MaxFwdDeltas
             ELSE nfrags = 0
          /\ FirstChunkStep(chunk)
    /\ UNCHANGED <<asm_ghosts, query_vars, route_vars, pair_vars, client_vars>>

\* one iteration of "for chunk in final_stream"
FwdSecondChunk ==
    /\ pc = "second"
    /\ Len(recv2) < MaxFwdDeltas
    /\ \E chunk \in FwdChunks :
          /\ SecondChunkStep(chunk)
          /\ frags2' = frags2 + Len(chunk.tool_calls)
    /\ UNCHANGED <<frag_indices, frag_args, frag_name, fed>>
    /\ UNCHANGED <<query_vars, route_vars, pair_vars, client_vars>>

\* The caller closes the generator while it is suspended at the yield of
\* the second loop: GeneratorExit is thrown at that yield.
CloseGenerator ==
    /\ pc = "second"
    /\ recv2 # << >>
    /\ recv2[Len(recv2)] # ""
    /\ IF CycleHandlerCatches("GeneratorExit")
       THEN RaiseInCycle("close")
       ELSE /\ pc' = "closed"
            /\ UNCHANGED <<out, failure>>
    /\ UNCHANGED <<variant, session, messages, full_response, tool_calls,
                   current_tool_call, current_tool_index, tool_results, di,
                   final_messages, requests, provider_calls, assembled, recv1,
                   recv2, nfrags>>
    /\ UNCHANGED <<asm_ghosts, query_vars, route_vars, pair_vars, client_vars>>

\* send_message_stream after the generator has ended: the aggregated
\* chunks are saved as the assistant message
RouteSaves ==
    /\ pc \in {"done", "closed"}
    /\ stored = << >>
    /\ stored' = <<AssistantContent(out)>>
    /\ UNCHANGED <<events, route_pc>>
    /\ UNCHANGED <<cycle_vars, asm_ghosts, query_vars, pair_vars, client_vars>>

InitFwd ==
    /\ Init
    /\ session

NextFwd ==
    \/ FirstRequest
    \/ FirstRequestRaises
    \/ FwdFirstChunk
    \/ FirstStreamRaises
    \/ FirstStreamEnds
    \/ DispatchOne
    \/ SecondRequest
    \/ SecondRequestRaises
    \/ FwdSecondChunk
    \/ SecondStreamRaises
    \/ SecondStreamEnds
    \/ CloseGenerator
    \/ RouteSaves

SpecFwd == InitFwd /\ [][NextFwd]_vars

(* ------------------ the cycle under a pulling caller ------------------ *)

\* The caller iterates the generator to its end: every __anext__ runs the
\* cycle to its next yield or to its end, completion streams end or raise,
\* and every awaited tool call returns or raises.
NextLive ==
    \/ NotConnected
    \/ FirstRequest
    \/ FirstRequestRaises
    \/ FwdFirstChunk
    \/ FirstStreamRaises
    \/ FirstStreamEnds
    \/ DispatchOne
    \/ SecondRequest
    \/ SecondRequestRaises
    \/ FwdSecondChunk
    \/ SecondStreamRaises
    \/ SecondStreamEnds

SpecLive == Init /\ [][NextLive]_vars /\ WF_vars(NextLive)

(* ------------------------ the streaming routes ------------------------ *)

\* generate_stream of process_query_stream ("query") and of
\* send_message_stream ("message") drive the cycle one __anext__ at a time
\* and turn what it yields into events.
Routes == {"query", "message"}

Event(type, content) == [type |-> type, content |-> content]

ContentEvents == SelectSeq(events, LAMBDA e : e.type = "content")

\* add_message of send_message_stream: the row is saved, or it raises
SaveOutcomes == {"saved", "raise"}

\* the route's generator starts; send_message_stream first sends the user
\* message and the typing indicator
RouteStarts ==
    /\ route_pc = "idle"
    /\ \E r \in Routes :
          /\ route_pc' = r
          /\ events' = IF r = "message"
                       THEN <<Event("user_message", ""), Event("typing", "")>>
                       ELSE << >>
    /\ UNCHANGED stored
    /\ UNCHANGED <<cycle_vars, asm_ghosts, query_vars, pair_vars, client_vars>>

\* the cycle runs only inside __anext__, after the route has sent the
\* event of the chunk it got before
CycleResumed ==
    /\ route_pc \in Routes
    /\ Len(ContentEvents) = Len(out)

\* the chunk __anext__ returned is sent as a content event
RouteForwards ==
    /\ route_pc \in Routes
    /\ Len(ContentEvents) < Len(out)
    /\ events' = Append(events, Event("content", out[Len(ContentEvents) + 1]))
    /\ UNCHANGED <<stored, route_pc>>
    /\ UNCHANGED <<cycle_vars, asm_ghosts, query_vars, pair_vars, client_vars>>

\* process_query_stream after StopAsyncIteration
RouteQueryEnds ==
    /\ route_pc = "query"
    /\ pc = "done"
    /\ Len(ContentEvents) = Len(out)
    /\ events' = Append(events, Event("complete", ""))
    /\ route_pc' = "ended"
    /\ UNCHANGED stored
    /\ UNCHANGED <<cycle_vars, asm_ghosts, query_vars, pair_vars, client_vars>>

\* send_message_stream after StopAsyncIteration: the answer is saved and
\* announced, or the save raises
RouteMessageEnds ==
    /\ route_pc = "message"
    /\ pc = "done"
    /\ Len(ContentEvents) = Len(out)
    /\ \E save \in SaveOutcomes :
          IF save = "saved"
          THEN /\ stored' = <<AssistantContent(out)>>
               /\ events' = events \o <<Event("assistant_message",
                                               AssistantContent(out)),
                                         Event("complete", "")>>
          ELSE /\ events' = Append(events, Event("error", "Database error: "))
               /\ UNCHANGED stored
    /\ route_pc' = "ended"
    /\ UNCHANGED <<cycle_vars, asm_ghosts, query_vars, pair_vars, client_vars>>

InitEvents == Init

NextEvents ==
    \/ RouteStarts
    \/ CycleResumed /\ NotConnected
    \/ CycleResumed /\ FirstRequest
    \/ CycleResumed /\ FirstRequestRaises
    \/ CycleResumed /\ FwdFirstChunk
    \/ CycleResumed /\ FirstStreamRaises
    \/ CycleResumed /\ FirstStreamEnds
    \/ CycleResumed /\ DispatchOne
    \/ CycleResumed /\ SecondRequest
    \/ CycleResumed /\ SecondRequestRaises
    \/ CycleResumed /\ FwdSecondChunk
    \/ CycleResumed /\ SecondStreamRaises
    \/ CycleResumed /\ SecondStreamEnds
    \/ RouteForwards
    \/ RouteQueryEnds
    \/ RouteMessageEnds

SpecEvents == InitEvents /\ [][NextEvents]_vars

(* ---------------------- two cycles on one client ---------------------- *)

\* Two calls of _process_messages_stream on the same client object.  Each
\* is a generator; control passes from one to the other only where a
\* generator is suspended: at a yield and at the awaited tool call.

PairChunks ==
    {[content |-> "a", tool_calls |-> << >>],
     [content |-> "", tool_calls |->
        <<[index |-> 0, id |-> "", name |-> "f", arguments |-> <<"{">>]>>],
     [content |-> "", tool_calls |->
        <<[index |-> 0, id |-> "", name |-> "", arguments |-> <<"}">>]>>],
     [content |-> "", tool_calls |->
        <<[index |-> 1, id |-> "", name |-> "g", arguments |-> << >>]>>]}

PairOutcomes == {"content", "raise"}

\* the messages argument of each call
PairMessages(c) ==
    <<SystemTurn, [role |-> "user", content |-> IF c = 1 THEN "q1" ELSE "q2"]>>

\* the working lists kept in one place for every call on the client
WorkOfClient(c) == 1

\* tool_calls, current_tool_call, current_tool_index and tool_results are
\* locals of the generator: each call works on its own
WorkOf(c) == c

\* the chunks both cycles have read from their first streams
PairChunksRead == Len(io[1].in1) + Len(io[2].in1)

\* the first completion request and the initial values of the locals
PairStart(c) ==
    /\ running \in {0, c}
    /\ io[c].pc = "idle"
    /\ io' = [io EXCEPT ![c].pc = "first"]
    /\ cyc' = [cyc EXCEPT ![WorkOf(c)] = EmptyWork]
    /\ running' = c

\* one iteration of "for chunk in stream"; a content delta is yielded
PairFirstChunk(c) ==
    /\ running \in {0, c}
    /\ io[c].pc = "first"
    /\ PairChunksRead < MaxPairChunks
    /\ \E chunk \in PairChunks, t \in CycleTimeStamps :
          /\ io' = [io EXCEPT ![c].in1 = Append(@, chunk),
                              ![c].out = @ \o Forwarded(chunk.content)]
          /\ cyc' = IF chunk.tool_calls = << >> THEN cyc
                    ELSE [cyc EXCEPT ![WorkOf(c)].asm =
                            AssembleFragment(variant, cyc[WorkOf(c)].asm,
                                             chunk.tool_calls[1], t)]
          /\ running' = IF Forwarded(chunk.content) # << >> THEN 0 ELSE c

\* the first stream is exhausted; with calls the status chunk is yielded
PairFirstStreamEnds(c) ==
    /\ running \in {0, c}
    /\ io[c].pc = "first"
    /\ LET final == FinalToolCalls(variant, cyc[WorkOf(c)].asm)
       IN  /\ cyc' = [cyc EXCEPT ![WorkOf(c)].asm.tool_calls = final]
           /\ io' = IF ToolPhase(final)
                    THEN [io EXCEPT ![c].pc = "dispatch",
                                    ![c].out = Append(@, MarkerText)]
                    ELSE [io EXCEPT ![c].pc = "done"]
    /\ running' = 0

\* one iteration of the dispatch loop; the tool call is awaited
PairDispatchOne(c) ==
    /\ running \in {0, c}
    /\ io[c].pc = "dispatch"
    /\ io[c].di <= Len(cyc[WorkOf(c)].asm.tool_calls)
    /\ \E outcome \in PairOutcomes :
          LET d == DispatchIntent(variant,
                                  cyc[WorkOf(c)].asm.tool_calls[io[c].di], outcome)
          IN  /\ cyc' = [cyc EXCEPT ![WorkOf(c)].results = @ \o d.results]
              /\ io' = [io EXCEPT ![c].di = @ + 1,
                                  ![c].outcomes = Append(@, outcome)]
              /\ running' = IF d.calls # << >> THEN 0 ELSE c

\* final_messages is built and the second completion request is issued
PairSecondRequest(c) ==
    /\ running \in {0, c}
    /\ io[c].pc = "dispatch"
    /\ io[c].di > Len(cyc[WorkOf(c)].asm.tool_calls)
    /\ io' = [io EXCEPT ![c].pc = "second",
                        ![c].sent = FinalMessages(variant, PairMessages(c),
                                        cyc[WorkOf(c)].asm.tool_calls,
                                        cyc[WorkOf(c)].results)]
    /\ UNCHANGED cyc
    /\ running' = c

\* the second stream's one chunk is read and, if not empty, yielded
PairSecondChunk(c) ==
    /\ running \in {0, c}
    /\ io[c].pc = "second"
    /\ io[c].recv2 = << >>
    /\ \E content \in Texts :
          /\ io' = [io EXCEPT ![c].recv2 = Append(@, content),
                              ![c].out = @ \o Forwarded(content)]
          /\ running' = IF Forwarded(content) # << >> THEN 0 ELSE c
    /\ UNCHANGED cyc

\* the second stream is exhausted: the generator returns
PairSecondStreamEnds(c) ==
    /\ running \in {0, c}
    /\ io[c].pc = "second"
    /\ io' = [io EXCEPT ![c].pc = "done"]
    /\ UNCHANGED cyc
    /\ running' = 0

InitPair ==
    /\ Init
    /\ session

NextPair ==
    \E c \in Cycles :
        /\ \/ PairStart(c)
           \/ PairFirstChunk(c)
           \/ PairFirstStreamEnds(c)
           \/ PairDispatchOne(c)
           \/ PairSecondRequest(c)
           \/ PairSecondChunk(c)
           \/ PairSecondStreamEnds(c)
        /\ UNCHANGED <<cycle_vars, asm_ghosts, query_vars, route_vars,
                       client_vars>>

SpecPair == InitPair /\ [][NextPair]_vars

(* ------------------------ the dispatcher's inputs --------------------- *)

\* The cycle from the moment the first stream has ended with calls, on
\* every list of one or two calls with explicit ids: the name present or
\* absent, the arguments empty, blank, parseable or malformed.

DispatchArguments ==
    {<< >>, <<" ">>, <<"{", "}">>, <<"{", "k", "}">>, <<"{">>}

DispatchLists ==
    {<<[id |-> "c1", name |-> n, arguments |-> a]>> :
        n \in {"", "f"}, a \in DispatchArguments}
    \cup
    {<<[id |-> "c1", name |-> n, arguments |-> a],
       [id |-> "c2", name |-> m, arguments |-> b]>> :
        n \in {"", "f"}, m \in {"", "g"},
        a \in DispatchArguments, b \in DispatchArguments}

\* the state FirstStreamEnds leaves when the stream held one fragment per
\* call, each with its own index and id, and no text
InitDispatch ==
    /\ variant \in {"stdio", "http"}
    /\ session = TRUE
    /\ \E context \in Contexts :
          /\ messages = <<SystemTurn>> \o context
          /\ requests = <<[messages |-> <<SystemTurn>> \o context,
                           tools |-> TRUE]>>
    /\ pc = "dispatch"
    /\ failure = ""
    /\ out = <<MarkerText>>
    /\ full_response = ""
    /\ tool_calls \in DispatchLists
    /\ assembled = tool_calls
    /\ current_tool_call = <<tool_calls[Len(tool_calls)]>>
    /\ current_tool_index = Len(tool_calls) - 1
    /\ nfrags = Len(tool_calls)
    /\ tool_results = << >>
    /\ di = 1
    /\ final_messages = << >>
    /\ provider_calls = << >>
    /\ recv1 = << >>
    /\ recv2 = << >>
    /\ frag_indices = {}
    /\ frag_args = << >>
    /\ frag_name = ""
    /\ fed = << >>
    /\ frags2 = 0
    /\ conversation_history = << >>
    /\ q_pc = "idle"
    /\ q_calls = << >>
    /\ q_i = 1
    /\ q_final_messages = << >>
    /\ q_requests = << >>
    /\ q_provider_calls = << >>
    /\ q_returned = << >>
    /\ q_count = 0
    /\ q_base = << >>
    /\ q_failure = ""
    /\ stored = << >>
    /\ events = << >>
    /\ route_pc = "idle"
    /\ cyc = [c \in Cycles |-> EmptyWork]
    /\ io = [c \in Cycles |-> EmptyIo]
    /\ running = 0
    /\ qq = [c \in Cycles |-> IdleQuery]
    /\ q_update = TRUE
    /\ conn = NoConnection

NextDispatch ==
    \/ DispatchOne
    \/ SecondRequest
    \/ SecondRequestRaises
    \/ SecondChunk
    \/ SecondStreamRaises
    \/ SecondStreamEnds

SpecDispatch == InitDispatch /\ [][NextDispatch]_vars

(* --------------------------- process_query ---------------------------- *)

\* The tool calls a non-streamed completion can carry: the id and the name
\* present or absent, the arguments parseable or not.
QueryCalls ==
    [id : {"", "c1"}, name : {"", "f"}, arguments : {<<"{", "}">>, <<"{">>}]

WellFormedCall == [id |-> "c2", name |-> "f", arguments |-> <<"{", "}">>]

\* response_message.tool_calls when it is not empty: one call, or one call
\* before or after a well-formed one
ResponseToolCalls ==
    {<<c>> : c \in QueryCalls}
        \cup {<<c, WellFormedCall>> : c \in QueryCalls}
        \cup {<<WellFormedCall, c>> : c \in QueryCalls}

FirstAnswerText == "first answer"
FinalAnswerText == "final answer"

\* the assistant message process_query records before it runs the tools
HistoryAssistantWithTools(calls) ==
    [role |-> "assistant", content |-> FirstAnswerText, tool_calls |-> calls]

\* tool_call.id if tool_call.id else f"call_{int(time.time() * 1000)}"
QueryToolCallId(id, t) == IF id # "" THEN id ELSE "call_" \o ToString(t)

\* The tool loop's body for a call with a name: json.loads, the awaited
\* session.call_tool, and the tool turn built from its result.
QueryNamedToolStep(tc, outcome, t) ==
    IF ~JsonLoads(tc.arguments).ok
    THEN [ends |-> "raise", calls |-> << >>, turn |-> << >>]
    ELSE LET call == [id |-> tc.id, name |-> tc.name,
                      args |-> JsonLoads(tc.arguments).value,
                      outcome |-> outcome]
         IN  IF outcome = "raise"
             THEN [ends |-> "raise", calls |-> <<call>>, turn |-> << >>]
             ELSE [ends |-> "result", calls |-> <<call>>,
                   turn |-> <<ToolTurn(QueryToolCallId(tc.id, t),
                                       StdioResultText(outcome))>>]

\* QueryToolStep without "if not tool_name: continue"
QueryToolStepNoSkip(tc, outcome, t) == QueryNamedToolStep(tc, outcome, t)

\* One iteration of the tool loop of _process_messages, which has no
\* except clause of its own: "skip" on an empty name, "raise" when
\* json.loads or session.call_tool raises, else the tool turn to append.
QueryToolStep(tc, outcome, t) ==
    IF tc.name = "" THEN [ends |-> "skip", calls |-> << >>, turn |-> << >>]
    ELSE QueryNamedToolStep(tc, outcome, t)

\* the messages a call hands to _process_messages: process_query builds
\* them from conversation_history and the query, process_query_with_context
\* from the context it was given
QueryMessages(context) ==
    IF q_update THEN <<SystemTurn>> \o conversation_history \o <<UserTurn>>
    ELSE <<SystemTurn>> \o context

\* the turn process_query records before it calls _process_messages
QueryUserTurn == IF q_update THEN <<UserTurn>> ELSE << >>

\* conversation_history after appends made whatever update_history is
RecordedAlways(turns) == conversation_history \o turns

\* conversation_history after "if update_history:
\* self.conversation_history.append(...)" for each of turns
Recorded(turns) ==
    IF q_update THEN conversation_history \o turns ELSE conversation_history

\* an except clause that leaves conversation_history as it is
QueryFailsKeepsHistory(what) ==
    /\ UNCHANGED conversation_history
    /\ q_failure' = what
    /\ q_returned' = Append(q_returned, CycleErrorText)
    /\ q_pc' = "idle"

\* the except clause of _process_messages: the history is emptied when
\* update_history is set
QueryFails(what) ==
    /\ conversation_history' = IF q_update THEN << >> ELSE conversation_history
    /\ q_failure' = what
    /\ q_returned' = Append(q_returned, CycleErrorText)
    /\ q_pc' = "idle"

\* a call without a session that records the user turn before it returns
QueryNotConnectedRecords ==
    /\ q_pc = "idle"
    /\ ~session
    /\ q_count < MaxQueries
    /\ q_count' = q_count + 1
    /\ q_returned' = Append(q_returned, NotConnectedText)
    /\ conversation_history' = conversation_history \o QueryUserTurn
    /\ UNCHANGED <<q_pc, q_calls, q_i, q_final_messages,
                   q_requests, q_provider_calls, q_base, q_failure>>
    /\ UNCHANGED <<cycle_vars, asm_ghosts, route_vars, pair_vars, client_vars>>

\* process_query or process_query_with_context without a session
QueryNotConnected ==
    /\ q_pc = "idle"
    /\ ~session
    /\ q_count < MaxQueries
    /\ q_count' = q_count + 1
    /\ q_returned' = Append(q_returned, NotConnectedText)
    /\ UNCHANGED <<conversation_history, q_pc, q_calls, q_i, q_final_messages,
                   q_requests, q_provider_calls, q_base, q_failure>>
    /\ UNCHANGED <<cycle_vars, asm_ghosts, route_vars, pair_vars, client_vars>>

\* the call builds its messages (process_query records the user turn), and
\* the first completion raises
QueryFirstRaises ==
    /\ q_pc = "idle"
    /\ session
    /\ q_count < MaxQueries
    /\ q_count' = q_count + 1
    /\ q_base' = conversation_history
    /\ \E context \in Contexts : messages' = QueryMessages(context)
    /\ QueryFails("first request")
    /\ UNCHANGED <<q_calls, q_i, q_final_messages, q_requests, q_provider_calls>>
    /\ UNCHANGED <<cycle_rest, asm_ghosts, route_vars, pair_vars, client_vars>>

\* the first completion answers without tool calls
QueryAnswers ==
    /\ q_pc = "idle"
    /\ session
    /\ q_count < MaxQueries
    /\ q_count' = q_count + 1
    /\ \E context \in Contexts :
          /\ messages' = QueryMessages(context)
          /\ q_requests' = Append(q_requests,
                [messages |-> QueryMessages(context), tools |-> TRUE])
    /\ conversation_history' =
            Recorded(QueryUserTurn
                     \o <<[role |-> "assistant", content |-> FirstAnswerText]>>)
    /\ q_returned' = Append(q_returned, FirstAnswerText)
    /\ q_calls' = << >>
    /\ q_base' = conversation_history
    /\ q_failure' = ""
    /\ UNCHANGED <<q_pc, q_i, q_final_messages, q_provider_calls>>
    /\ UNCHANGED <<cycle_rest, asm_ghosts, route_vars, pair_vars, client_vars>>

\* the first completion asks for tools; process_query records the
\* assistant turn with its tool_calls before any tool runs
QueryAsksTools ==
    /\ q_pc = "idle"
    /\ session
    /\ q_count < MaxQueries
    /\ q_count' = q_count + 1
    /\ \E calls \in ResponseToolCalls, context \in Contexts :
          LET msgs == QueryMessages(context)
              fm == msgs \o <<HistoryAssistantWithTools(calls)>>
          IN  /\ q_requests' = Append(q_requests, [messages |-> msgs, tools |-> TRUE])
              /\ q_calls' = calls
              /\ q_final_messages' = fm
              /\ messages' = MessagesAfterCopy(msgs, fm)
              /\ conversation_history' =
                    Recorded(QueryUserTurn
                             \o <<HistoryAssistantWithTools(calls)>>)
    /\ q_i' = 1
    /\ q_pc' = "tools"
    /\ q_base' = conversation_history
    /\ q_failure' = ""
    /\ UNCHANGED <<q_provider_calls, q_returned>>
    /\ UNCHANGED <<cycle_rest, asm_ghosts, route_vars, pair_vars, client_vars>>

\* one iteration of "for tool_call in response_message.tool_calls"
QueryTool ==
    /\ q_pc = "tools"
    /\ q_i <= Len(q_calls)
    /\ \E outcome \in ProviderOutcomes, t \in CycleTimeStamps :
          LET d == QueryToolStep(q_calls[q_i], outcome, t)
          IN  /\ q_provider_calls' = q_provider_calls \o d.calls
              /\ IF d.ends = "raise"
                 THEN /\ QueryFails("tool")
                      /\ UNCHANGED <<q_final_messages, messages>>
                 ELSE /\ q_final_messages' = q_final_messages \o d.turn
                      /\ messages' =
                            MessagesAfterCopy(messages,
                                              q_final_messages \o d.turn)
                      /\ conversation_history' = Recorded(d.turn)
                      /\ UNCHANGED <<q_pc, q_returned, q_failure>>
    /\ q_i' = q_i + 1
    /\ UNCHANGED <<q_calls, q_requests, q_count, q_base>>
    /\ UNCHANGED <<cycle_rest, asm_ghosts, route_vars, pair_vars, client_vars>>

\* the second completion answers: process_query records the final
\* assistant turn
QuerySecondAnswers ==
    /\ q_pc = "tools"
    /\ q_i > Len(q_calls)
    /\ q_requests' = Append(q_requests,
                            [messages |-> q_final_messages, tools |-> FALSE])
    /\ conversation_history' =
            Recorded(<<[role |-> "assistant", content |-> FinalAnswerText]>>)
    /\ q_returned' = Append(q_returned, FinalAnswerText)
    /\ q_pc' = "idle"
    /\ UNCHANGED <<q_calls, q_i, q_final_messages, q_provider_calls, q_count,
                   q_base, q_failure>>
    /\ UNCHANGED <<cycle_vars, asm_ghosts, route_vars, pair_vars, client_vars>>

\* the second completion raises
QuerySecondRaises ==
    /\ q_pc = "tools"
    /\ q_i > Len(q_calls)
    /\ QueryFails("second request")
    /\ UNCHANGED <<q_calls, q_i, q_final_messages, q_requests,
                   q_provider_calls, q_count, q_base>>
    /\ UNCHANGED <<cycle_vars, asm_ghosts, route_vars, pair_vars, client_vars>>

InitQuery ==
    /\ Init
    /\ variant = "stdio"

NextQuery ==
    \/ QueryNotConnected
    \/ QueryFirstRaises
    \/ QueryAnswers
    \/ QueryAsksTools
    \/ QueryTool
    \/ QuerySecondAnswers
    \/ QuerySecondRaises

SpecQuery == InitQuery /\ [][NextQuery]_vars

(* ------------------ the three entry points of MCPClient --------------- *)

\* One MCPClient whose caller uses process_query, process_query_with_context
\* and process_query_with_context_stream one after the other: calls of
\* process_query, then calls of process_query_with_context, and one streamed
\* cycle, begun after a first call that asked for no tool.

\* from now on the non-streamed calls are made through
\* process_query_with_context
SwitchMode ==
    /\ q_pc = "idle"
    /\ pc = "idle"
    /\ q_count < MaxQueries
    /\ q_update
    /\ q_update' = FALSE
    /\ UNCHANGED <<qq, conn>>
    /\ UNCHANGED <<cycle_vars, asm_ghosts, query_vars, route_vars, pair_vars>>

\* no non-streamed call is running and the streamed cycle has not begun
NoneRunning == q_pc = "idle" /\ pc = "idle"

\* the streamed cycle may begin
StreamMayStart == NoneRunning /\ q_count = 1 /\ q_calls = << >>

InitContext ==
    /\ Init
    /\ variant = "stdio"

NextContext ==
    \/ SwitchMode
    \/ NoneRunning /\ QueryNotConnected
    \/ NoneRunning /\ QueryFirstRaises
    \/ NoneRunning /\ QueryAnswers
    \/ NoneRunning /\ QueryAsksTools
    \/ QueryTool
    \/ QuerySecondAnswers
    \/ QuerySecondRaises
    \/ StreamMayStart /\ NotConnected
    \/ StreamMayStart /\ FirstRequest
    \/ StreamMayStart /\ FirstRequestRaises
    \/ FwdFirstChunk
    \/ FirstStreamRaises
    \/ FirstStreamEnds
    \/ DispatchOne
    \/ SecondRequest
    \/ SecondRequestRaises
    \/ FwdSecondChunk
    \/ SecondStreamRaises
    \/ SecondStreamEnds

SpecContext == InitContext /\ [][NextContext]_vars

(* ---------------- HTTPMCPClient: connecting and cleanup --------------- *)

\* The caller awaits connect_to_server and cleanup one after the other, in
\* any order and number, and then iterates one streamed cycle.  The aiohttp
\* sessions the client opens are numbered from 1.
MaxSessions == 3

\* the health check: status 200, another status, or a raising request
ConnectOutcomes == {"ok", "status", "raise"}

\* connect_to_server: a new aiohttp session is bound to self.session, then
\* the health check returns True, or the except clause closes self.session,
\* sets it to None and returns False
ConnectToServer ==
    /\ pc = "idle"
    /\ conn.opened < MaxSessions
    /\ \E outcome \in ConnectOutcomes :
          LET new == conn.opened + 1
          IN  IF outcome = "ok"
              THEN /\ conn' = [session |-> new,
                               unclosed |-> conn.unclosed \cup {new},
                               opened |-> new, last |-> "True"]
                   /\ session' = TRUE
              ELSE /\ conn' = [session |-> 0, unclosed |-> conn.unclosed,
                               opened |-> new, last |-> "False"]
                   /\ session' = FALSE
    /\ UNCHANGED <<variant, messages, pc, failure, out, full_response,
                   tool_calls, current_tool_call, current_tool_index,
                   tool_results, di, final_messages, requests, provider_calls,
                   assembled, recv1, recv2, nfrags>>
    /\ UNCHANGED <<qq, q_update>>
    /\ UNCHANGED <<asm_ghosts, query_vars, route_vars, pair_vars>>

\* cleanup: "if self.session: await self.session.close(); self.session = None"
Cleanup ==
    /\ pc = "idle"
    /\ conn' = [conn EXCEPT !.session = 0,
                            !.unclosed = conn.unclosed \ {conn.session},
                            !.last = "cleanup"]
    /\ session' = FALSE
    /\ UNCHANGED <<variant, messages, pc, failure, out, full_response,
                   tool_calls, current_tool_call, current_tool_index,
                   tool_results, di, final_messages, requests, provider_calls,
                   assembled, recv1, recv2, nfrags>>
    /\ UNCHANGED <<qq, q_update>>
    /\ UNCHANGED <<asm_ghosts, query_vars, route_vars, pair_vars>>

InitConn ==
    /\ Init
    /\ variant = "http"
    /\ ~session

NextConn ==
    \/ ConnectToServer
    \/ Cleanup
    \/ NextLive

SpecConn == InitConn /\ [][NextConn]_vars

(* ------------------- two process_query calls at once ------------------ *)

\* Two process_query coroutines of one MCPClient on one event loop. The
\* completion requests are synchronous calls, so a coroutine is suspended
\* only at "await self.session.call_tool"; each step below runs one
\* coroutine from where it stands to its next await or to its return.
\* Every tool call has an id of its own, a name and parseable arguments.
MaxPairHistory == 5

PairCall(c, k) ==
    [id |-> "q" \o ToString(c) \o "_" \o ToString(k), name |-> "f",
     arguments |-> <<"{", "}">>]

PairResponseCalls(c) == {<<PairCall(c, 1)>>, <<PairCall(c, 1), PairCall(c, 2)>>}

\* process_query(c) from its call to the first await: the user turn is
\* recorded, then the first completion raises, answers, or asks for tools
PairQueryStarts(c) ==
    /\ qq[c].pc \in {"idle", "done"}
    /\ Len(conversation_history) < MaxPairHistory
    /\ \/ /\ conversation_history' = << >>
          /\ qq' = [qq EXCEPT ![c] = [pc |-> "done", calls |-> << >>, i |-> 1]]
       \/ /\ conversation_history' =
                conversation_history
                \o <<UserTurn,
                     [role |-> "assistant", content |-> FirstAnswerText]>>
          /\ qq' = [qq EXCEPT ![c] = [pc |-> "done", calls |-> << >>, i |-> 1]]
       \/ \E calls \in PairResponseCalls(c) :
             /\ conversation_history' =
                   conversation_history
                   \o <<UserTurn, HistoryAssistantWithTools(calls)>>
             /\ qq' = [qq EXCEPT ![c] = [pc |-> "await", calls |-> calls,
                                         i |-> 1]]
    /\ UNCHANGED <<q_pc, q_calls, q_i, q_final_messages, q_requests,
                   q_provider_calls, q_returned, q_count, q_base, q_failure>>
    /\ UNCHANGED <<q_update, conn>>
    /\ UNCHANGED <<cycle_vars, asm_ghosts, route_vars, pair_vars>>

\* process_query(c) resumed after "await self.session.call_tool": the call
\* raised, or its tool turn is recorded and the coroutine runs to the next
\* await or through the second completion to its return
PairQueryResumes(c) ==
    /\ qq[c].pc = "await"
    /\ \E outcome \in ProviderOutcomes, t \in CycleTimeStamps,
          second \in {"answer", "raise"} :
          LET d == QueryToolStep(qq[c].calls[qq[c].i], outcome, t)
              last == qq[c].i = Len(qq[c].calls)
          IN  IF d.ends = "raise" \/ (last /\ second = "raise")
              THEN /\ conversation_history' = << >>
                   /\ qq' = [qq EXCEPT ![c].pc = "done"]
              ELSE IF last
              THEN /\ conversation_history' =
                         conversation_history \o d.turn
                         \o <<[role |-> "assistant",
                               content |-> FinalAnswerText]>>
                   /\ qq' = [qq EXCEPT ![c].pc = "done"]
              ELSE /\ conversation_history' = conversation_history \o d.turn
                   /\ qq' = [qq EXCEPT ![c].i = @ + 1]
    /\ UNCHANGED <<q_pc, q_calls, q_i, q_final_messages, q_requests,
                   q_provider_calls, q_returned, q_count, q_base, q_failure>>
    /\ UNCHANGED <<q_update, conn>>
    /\ UNCHANGED <<cycle_vars, asm_ghosts, route_vars, pair_vars>>

InitQueryPair ==
    /\ Init
    /\ variant = "stdio"
    /\ session

NextQueryPair == \E c \in Cycles : PairQueryStarts(c) \/ PairQueryResumes(c)

SpecQueryPair == InitQueryPair /\ [][NextQueryPair]_vars

(* ----------------------- the assembler on its own --------------------- *)

\* The decode pass of the first stream alone, on every fragment of Frags
\* and every timestamp: from the empty working state, fragments are fed one
\* by one and the pass ends as the stream does.

InitAsm ==
    /\ Init
    /\ session

\* one iteration of "for tool_call in chunk.choices[0].delta.tool_calls"
FeedFragment ==
    /\ pc = "idle"
    /\ nfrags < MaxAsmFrags
    /\ \E frag \in Frags, t \in TimeStamps :
          LET a == AssembleFragment(variant,
                       [tool_calls |-> tool_calls, cur |-> current_tool_call,
                        idx |-> current_tool_index], frag, t)
          IN  /\ tool_calls' = a.tool_calls
              /\ current_tool_call' = a.cur
              /\ current_tool_index' = a.idx
              /\ frag_indices' = frag_indices \cup {frag.index}
              /\ frag_args' = frag_args \o frag.arguments
              /\ frag_name' = IF frag.name # "" THEN frag.name ELSE frag_name
    /\ nfrags' = nfrags + 1
    /\ UNCHANGED <<fed, frags2>>
    /\ UNCHANGED <<variant, session, messages, pc, failure, out, full_response,
                   tool_results, di, final_messages, requests, provider_calls,
                   assembled, recv1, recv2, query_vars, route_vars, pair_vars, client_vars>>

\* the stream is exhausted: the last call is added and the calls deduplicated
AssemblyEnds ==
    /\ pc = "idle"
    /\ LET a == [tool_calls |-> tool_calls, cur |-> current_tool_call,
                 idx |-> current_tool_index]
       IN  /\ assembled' = FinalizeCalls(a)
           /\ tool_calls' = FinalToolCalls(variant, a)
    /\ pc' = "assembled"
    /\ UNCHANGED <<variant, session, messages, failure, out, full_response,
                   current_tool_call, current_tool_index, tool_results, di,
                   final_messages, requests, provider_calls, recv1, recv2,
                   nfrags, asm_ghosts, query_vars, route_vars, pair_vars, client_vars>>

NextAsm ==
    \/ FeedFragment
    \/ AssemblyEnds

SpecAsm == InitAsm /\ [][NextAsm]_vars

(* ------------------ the assembler on recorded streams ----------------- *)

\* what a fragment of a recorded stream carries
RunPayloads ==
    {[name |-> "f", arguments |-> <<"{">>],
     [name |-> "", arguments |-> <<"}">>],
     [name |-> "g", arguments |-> << >>],
     [name |-> "", arguments |-> << >>]}

RunFrags ==
    {[index |-> i, id |-> d, name |-> p.name, arguments |-> p.arguments] :
        i \in Indices, d \in FragIds, p \in RunPayloads}

\* one iteration of "for tool_call in chunk.choices[0].delta.tool_calls"
FeedRun ==
    /\ pc = "idle"
    /\ nfrags < MaxRunFrags
    /\ \E frag \in RunFrags, t \in CycleTimeStamps :
          LET a == AssembleFragment(variant,
                       [tool_calls |-> tool_calls, cur |-> current_tool_call,
                        idx |-> current_tool_index], frag, t)
          IN  /\ tool_calls' = a.tool_calls
              /\ current_tool_call' = a.cur
              /\ current_tool_index' = a.idx
              /\ fed' = Append(fed, frag)
    /\ nfrags' = nfrags + 1
    /\ UNCHANGED <<frag_indices, frag_args, frag_name, frags2>>
    /\ UNCHANGED <<variant, session, messages, pc, failure, out, full_response,
                   tool_results, di, final_messages, requests, provider_calls,
                   assembled, recv1, recv2, query_vars, route_vars, pair_vars, client_vars>>

NextRuns ==
    \/ FeedRun
    \/ AssemblyEnds

SpecRuns == InitAsm /\ [][NextRuns]_vars

(* ======================= properties of the assembler ================== *)

RECURSIVE ConcatArguments(_)
\* the arguments texts of a sequence of calls, joined in order
ConcatArguments(calls) ==
    IF calls = << >> THEN << >>
    ELSE Head(calls).arguments \o ConcatArguments(Tail(calls))

RECURSIVE FirstNonEmptyName(_)
\* the first non-empty name in a sequence of calls, "" if there is none
FirstNonEmptyName(calls) ==
    IF calls = << >> THEN ""
    ELSE IF Head(calls).name # "" THEN Head(calls).name
    ELSE FirstNonEmptyName(Tail(calls))

\* the calls assembled under one id, in arrival order
SameIdGroup(id) == SelectSeq(assembled, LAMBDA tc : tc.id = id)

DistinctIds(calls) ==
    \A i, j \in 1..Len(calls) : i # j => calls[i].id # calls[j].id

\* C2: when every fragment fed (at least one) carries the same index, the
\* assembler holds exactly one call at every moment, the active one, and
\* when the stream ends exactly one call is handed on; its arguments is the
\* concatenation of all arguments fragments in arrival order and its name
\* is the last non-empty name fragment ("" if there was none).
C2_SameIndexOneIntent ==
    Cardinality(frag_indices) = 1 =>
        /\ pc = "idle" =>
              /\ tool_calls = << >>
              /\ Len(current_tool_call) = 1
              /\ current_tool_call[1].arguments = frag_args
              /\ current_tool_call[1].name = frag_name
        /\ pc = "assembled" =>
              /\ Len(assembled) = 1
              /\ tool_calls = assembled
              /\ tool_calls[1].arguments = frag_args
              /\ tool_calls[1].name = frag_name

\* three fragments of one index: the name "g" replaced an earlier name or
\* filled an empty one, and two arguments fragments were joined
C2_Witness ==
    /\ pc = "assembled"
    /\ Cardinality(frag_indices) = 1
    /\ nfrags = 3
    /\ Len(tool_calls) = 1
    /\ tool_calls[1].name = "g"
    /\ tool_calls[1].arguments = <<"{", "k", "}">>

\* C3: the calls MCPClient hands to the dispatcher have pairwise distinct
\* ids, whatever ids the fragments carried or omitted and whatever the
\* clock returned.
C3_DistinctIds ==
    (pc = "assembled" /\ variant = "stdio") => DistinctIds(tool_calls)

\* no fragment carried an id and three calls were started within the same
\* millisecond (the clock returned 0 each time)
C3_Witness ==
    /\ pc = "assembled"
    /\ variant = "stdio"
    /\ Len(tool_calls) = 3
    /\ tool_calls[1].id = SynthId(0, 0)
    /\ tool_calls[2].id = SynthId(1, 0)
    /\ tool_calls[3].id = SynthId(2, 0)

\* C6: after deduplication in MCPClient every id of the assembled list is
\* kept once, and the call kept for an id has the arguments of all calls
\* assembled under that id, concatenated in arrival order, and the first
\* non-empty name among them.
C6_MergeSameId ==
    (pc = "assembled" /\ variant = "stdio") =>
        /\ IdSet(tool_calls) = IdSet(assembled)
        /\ \A i \in 1..Len(tool_calls) :
              LET group == SameIdGroup(tool_calls[i].id)
              IN  /\ tool_calls[i].arguments = ConcatArguments(group)
                  /\ tool_calls[i].name = FirstNonEmptyName(group)

\* two calls under the explicit id "c1", from different indices, both with
\* arguments, the first without a name and the second with one
C6_Witness ==
    /\ pc = "assembled"
    /\ variant = "stdio"
    /\ Len(SameIdGroup("c1")) = 2
    /\ SameIdGroup("c1")[1].name = ""
    /\ SameIdGroup("c1")[1].arguments = <<"{">>
    /\ SameIdGroup("c1")[2].name = "f"
    /\ SameIdGroup("c1")[2].arguments = <<"{">>
    /\ Len(tool_calls) = 1

RECURSIVE RunStartOf(_)
\* the position in fed of the first fragment of the run fragment i is in: a
\* fragment opens a run when it is the first one or when it carries an index
\* other than the index its predecessor's run was opened with
RunStartOf(i) ==
    IF i = 1 THEN 1
    ELSE LET s == RunStartOf(i - 1)
         IN  IF fed[i].index # NoIndex /\ fed[i].index # fed[s].index
             THEN i ELSE s

RunStarts == {i \in 1..Len(fed) : RunStartOf(i) = i}

\* the start of the k-th run
NthRunStart(k) ==
    CHOOSE s \in RunStarts : Cardinality({r \in RunStarts : r <= s}) = k

\* the fragments of the run opened at position s, in arrival order
RunFragments(s) ==
    SelectSeq([i \in 1..Len(fed) |-> [pos |-> i, frag |-> fed[i]]],
              LAMBDA e : RunStartOf(e.pos) = s)

RECURSIVE RunArguments(_)
RunArguments(es) ==
    IF es = << >> THEN << >>
    ELSE Head(es).frag.arguments \o RunArguments(Tail(es))

RECURSIVE RunName(_)
\* the last non-empty name of a run, "" if it has none
RunName(es) ==
    IF es = << >> THEN ""
    ELSE IF es[Len(es)].frag.name # "" THEN es[Len(es)].frag.name
    ELSE RunName(SubSeq(es, 1, Len(es) - 1))

\* call is what the run opened at s spells
IntentOfRun(call, s) ==
    /\ call.arguments = RunArguments(RunFragments(s))
    /\ call.name = RunName(RunFragments(s))
    /\ fed[s].id # "" => call.id = fed[s].id

\* C23: at every moment of the decode pass the calls pushed to tool_calls
\* followed by the active call correspond one-to-one, in order, to the
\* maximal runs of the fragments read so far: the active call is the last
\* run, the pushed calls are the earlier runs and spell exactly the
\* fragments of their own run; when the stream ends the list before
\* deduplication holds one call per run.
C23_OneIntentPerRun ==
    LET calls == IF pc = "idle" THEN tool_calls \o current_tool_call
                 ELSE assembled
    IN  /\ Len(calls) = Cardinality(RunStarts)
        /\ pc = "idle" => Len(current_tool_call) = IF fed = << >> THEN 0 ELSE 1
        /\ (pc = "idle" /\ fed # << >>) =>
              current_tool_index = fed[RunStartOf(Len(fed))].index
        /\ \A k \in 1..Len(calls) : IntentOfRun(calls[k], NthRunStart(k))

\* index 0 with "{", a fragment without index with "}", then index 1: the
\* first two fragments are one pushed call, the third is the active call
C23_Witness ==
    /\ pc = "idle"
    /\ Len(fed) = 3
    /\ fed[1].index = 0 /\ fed[1].arguments = <<"{">>
    /\ fed[2].index = NoIndex /\ fed[2].arguments = <<"}">>
    /\ fed[3].index = 1
    /\ Len(tool_calls) = 1
    /\ tool_calls[1].arguments = <<"{", "}">>
    /\ Len(current_tool_call) = 1

\* the fragments of fed that carry index k, in arrival order
FragmentsOfIndex(k) == SelectSeq(fed, LAMBDA f : f.index = k)

RECURSIVE FragmentArguments(_)
FragmentArguments(frags) ==
    IF frags = << >> THEN << >>
    ELSE Head(frags).arguments \o FragmentArguments(Tail(frags))

\* every fragment carries an index, and no explicit id is carried by
\* fragments of two different indices
IndexedStream ==
    /\ \A i \in 1..Len(fed) : fed[i].index # NoIndex
    /\ \A i, j \in 1..Len(fed) :
          (fed[i].id # "" /\ fed[i].id = fed[j].id) => fed[i].index = fed[j].index

\* C24: for every stream of indexed fragments, also when the indices are
\* interleaved, MCPClient hands on for each index one call whose arguments
\* is the concatenation, in arrival order, of all arguments fragments that
\* carried this index.
C24_IndexArgumentsTogether ==
    (pc = "assembled" /\ variant = "stdio" /\ IndexedStream) =>
        \A i \in 1..Len(fed) :
            \E j \in 1..Len(tool_calls) :
                tool_calls[j].arguments =
                    FragmentArguments(FragmentsOfIndex(fed[i].index))

(* ==================== properties of the streaming cycle =============== *)

\* the calls of the dispatcher's list that have a name, in list order
NamedCalls(calls) == SelectSeq(calls, LAMBDA tc : tc.name # "")

\* the ids of a sequence of calls or of tool turns, in order
CallIds(calls) == [i \in 1..Len(calls) |-> calls[i].id]
ResultIds(results) == [i \in 1..Len(results) |-> results[i].tool_call_id]

\* the text deltas that are not empty, in arrival order
NonEmptyDeltas(deltas) == SelectSeq(deltas, LAMBDA c : c # "")

\* the tool phase was entered: the first stream ended with calls
InToolPhase == pc = "dispatch" \/ Len(requests) = 2 \/ final_messages # << >>

\* the dispatch loop has run over every call
DispatchComplete == InToolPhase /\ di > Len(tool_calls)

\* the tool turns of a message list, in order
ToolTurns(msgs) == SelectSeq(msgs, LAMBDA m : m.role = "tool")

C4_EmptyNameSkipped ==
    (variant = "stdio" /\ InToolPhase) =>
        /\ \A k \in 1..Len(provider_calls) : provider_calls[k].name # ""
        /\ \A i \in 1..Len(tool_calls) :
              tool_calls[i].name = "" =>
                 /\ \A k \in 1..Len(provider_calls) :
                       provider_calls[k].id # tool_calls[i].id
                 /\ \A k \in 1..Len(tool_results) :
                       tool_results[k].tool_call_id # tool_calls[i].id
                 /\ Len(requests) = 2 =>
                       LET sent == requests[2].messages
                       IN  /\ tool_calls[i].id \notin
                                 IdSet(sent[Len(messages) + 1].tool_calls)
                           /\ \A k \in 1..Len(sent) :
                                 sent[k].role = "tool" =>
                                    sent[k].tool_call_id # tool_calls[i].id
        /\ \A i \in 1..Len(tool_calls) :
              (tool_calls[i].name # "" /\ Len(requests) = 2) =>
                 LET sent == requests[2].messages
                 IN  /\ tool_calls[i].id \in
                           IdSet(sent[Len(messages) + 1].tool_calls)
                     /\ \E k \in 1..Len(sent) :
                           /\ sent[k].role = "tool"
                           /\ sent[k].tool_call_id = tool_calls[i].id

\* a second request of MCPClient after a list of one call without a name
\* and one named call, which was passed to the provider
C4_Witness ==
    /\ variant = "stdio"
    /\ Len(requests) = 2
    /\ Len(tool_calls) = 2
    /\ tool_calls[1].name = ""
    /\ tool_calls[2].name = "f"
    /\ Len(provider_calls) = 1
    /\ provider_calls[1].id = tool_calls[2].id

\* C5: a cycle whose first stream ended without any tool-call fragment has
\* issued one completion request only and invoked no tool, and the chunks
\* forwarded to the caller are exactly the non-empty text deltas of the
\* first stream, so their concatenations are equal.
C5_NoToolShortCircuit ==
    (pc = "done" /\ session /\ failure = "" /\ nfrags = 0) =>
        /\ Len(requests) = 1
        /\ provider_calls = << >>
        /\ out = NonEmptyDeltas(recv1)
        /\ Concat(out) = Concat(recv1)

\* a cycle that ended after one text delta and no fragment
C5_Witness ==
    /\ pc = "done"
    /\ session
    /\ failure = ""
    /\ nfrags = 0
    /\ recv1 = <<"a">>
    /\ out = <<"a">>

\* the arguments text parses, or is blank and stands for an empty payload
Parseable(arguments) == IsBlank(arguments) \/ JsonLoads(arguments).ok

SomeProviderRaised ==
    \E k \in 1..Len(provider_calls) : provider_calls[k].outcome = "raise"

\* C7: a tool provider call that raises never ends the cycle: its call gets
\* a tool result whose content is an error text, every named call with
\* parseable arguments is passed to the provider and every named call gets
\* a result, the second request is issued unless the completion service
\* itself fails, and a cycle that then ends normally has forwarded the
\* second stream's text after the status chunk.
C7_ProviderFailureContained ==
    /\ failure # "tool"
    /\ \A k \in 1..Len(provider_calls) :
          provider_calls[k].outcome = "raise" =>
             \E r \in 1..Len(tool_results) :
                /\ tool_results[r].tool_call_id = provider_calls[k].id
                /\ tool_results[r].content \in ErrorTexts
    /\ (SomeProviderRaised /\ DispatchComplete) =>
          /\ Len(tool_results) = Len(NamedCalls(tool_calls))
          /\ Len(provider_calls) =
                Len(SelectSeq(NamedCalls(tool_calls),
                              LAMBDA tc : Parseable(tc.arguments)))
    /\ (SomeProviderRaised /\ pc = "dispatch") => failure = ""
    /\ (SomeProviderRaised /\ failure = "" /\ pc \in {"second", "done"}) =>
          /\ Len(requests) = 2
          /\ out = NonEmptyDeltas(recv1) \o <<MarkerText>> \o NonEmptyDeltas(recv2)

\* the provider raised for the first of two named calls and answered the
\* second; the cycle ended normally with the second stream's text forwarded
C7_Witness ==
    /\ pc = "done"
    /\ failure = ""
    /\ Len(provider_calls) = 2
    /\ provider_calls[1].outcome = "raise"
    /\ provider_calls[2].outcome = "content"
    /\ Len(tool_results) = 2
    /\ tool_results[1].content \in ErrorTexts
    /\ tool_results[2].content = "tool output"
    /\ recv2 = <<"a">>

\* C8: while and after the dispatcher runs, the tool results are, in order,
\* one per named call among the calls already dispatched: each named call
\* has exactly one result, carrying its id, whether the call succeeded, its
\* arguments failed to parse, or the provider failed.
C8_OneResultPerNamedCall ==
    InToolPhase =>
        /\ di <= Len(tool_calls) + 1
        /\ ResultIds(tool_results) =
              CallIds(NamedCalls(SubSeq(tool_calls, 1, di - 1)))
        /\ \A r \in 1..Len(tool_results) : tool_results[r].role = "tool"

\* two named calls dispatched: the arguments of the first failed to parse,
\* the provider raised for the second
C8_Witness ==
    /\ DispatchComplete
    /\ variant = "stdio"
    /\ Len(tool_calls) = 2
    /\ Len(tool_results) = 2
    /\ tool_results[1].content = ParseErrorText("f")
    /\ tool_results[2].content = ExecErrorText("f")

\* the entry of the assistant turn for a named call: its id, its name, and
\* its arguments text, an empty text being sent as the placeholder "{}"
ListedCall(tc) ==
    [id |-> tc.id, name |-> tc.name,
     arguments |-> IF Len(tc.arguments) = 0 THEN <<"{", "}">> ELSE tc.arguments]

\* C9: the message list of MCPClient's second request is the caller's
\* messages in their order, then one assistant turn with content "" whose
\* tool_calls are the named calls in list order, then the tool results in
\* result order, the i-th carrying the id of the i-th named call; nothing
\* else.
C9_SecondRequestMessages ==
    (variant = "stdio" /\ Len(requests) = 2) =>
        LET named == NamedCalls(tool_calls)
        IN  /\ messages = requests[1].messages
            /\ requests[2].messages =
                  messages
                  \o <<[role |-> "assistant", content |-> "",
                        tool_calls |-> [i \in 1..Len(named) |-> ListedCall(named[i])]]>>
                  \o tool_results
            /\ Len(tool_results) = Len(named)
            /\ \A i \in 1..Len(named) :
                  /\ tool_results[i].role = "tool"
                  /\ tool_results[i].tool_call_id = named[i].id

\* a second request of MCPClient after a call without a name and a named
\* call with empty arguments
C9_Witness ==
    /\ variant = "stdio"
    /\ Len(requests) = 2
    /\ Len(tool_calls) = 2
    /\ tool_calls[1].name = ""
    /\ tool_calls[2].name = "f"
    /\ tool_calls[2].arguments = << >>
    /\ Len(requests[2].messages) = Len(messages) + 2

\* the tool_calls of the assistant turn the second request carries
SentToolCalls == requests[2].messages[Len(messages) + 1].tool_calls

\* C25: in HTTPMCPClient the tool_calls listed in the assistant turn of the
\* second request have pairwise distinct ids, whatever ids the fragments
\* carried, also when two calls of different indices carry the same id.
C25_HttpListedIdsDistinct ==
    (variant = "http" /\ Len(requests) = 2) => DistinctIds(SentToolCalls)

\* C26: in HTTPMCPClient a call whose name is empty when the first stream
\* ends is not passed to the tool provider, gets no tool turn, and is not
\* listed in the tool_calls of the assistant turn of the second request
\* (stated for lists of calls whose ids are pairwise distinct).
C26_HttpEmptyNameExcluded ==
    (variant = "http" /\ InToolPhase /\ DistinctIds(tool_calls)) =>
        \A i \in 1..Len(tool_calls) :
            tool_calls[i].name = "" =>
               /\ \A k \in 1..Len(provider_calls) :
                     provider_calls[k].id # tool_calls[i].id
               /\ \A k \in 1..Len(tool_results) :
                     tool_results[k].tool_call_id # tool_calls[i].id
               /\ Len(requests) = 2 =>
                     tool_calls[i].id \notin IdSet(SentToolCalls)

\* C27: in the second request of MCPClient every id listed in the
\* assistant turn is answered by exactly one tool turn, every tool turn
\* answers a listed id, and the filter by valid ids has dropped nothing: the
\* tool turns sent are all the tool results, in order.
C27_ListedIdsAnsweredOnce ==
    (variant = "stdio" /\ Len(requests) = 2) =>
        LET sent == ToolTurns(requests[2].messages)
        IN  /\ \A i \in 1..Len(SentToolCalls) :
                  Len(SelectSeq(sent, LAMBDA m :
                        m.tool_call_id = SentToolCalls[i].id)) = 1
            /\ \A k \in 1..Len(sent) :
                  sent[k].tool_call_id \in IdSet(SentToolCalls)
            /\ sent = tool_results
            /\ Len(sent) = Len(SentToolCalls)

\* a call without a name and the call "f" with unparseable arguments: the
\* second request lists "f" alone and carries its one tool turn, the
\* parse error
C27_Witness ==
    /\ variant = "stdio"
    /\ Len(requests) = 2
    /\ Len(tool_calls) = 2
    /\ tool_calls[1].name = ""
    /\ tool_calls[2].name = "f"
    /\ Len(SentToolCalls) = 1
    /\ tool_results = <<ToolTurn(tool_calls[2].id, ParseErrorText("f"))>>

\* C28 as stated: whenever MCPClient issues the second request, its
\* assistant turn lists at least one tool call and at least one tool turn
\* follows it, also when every call of the first stream has an empty name.
C28_SecondRequestHasCalls ==
    (variant = "stdio" /\ Len(requests) = 2) =>
        /\ Len(SentToolCalls) >= 1
        /\ Len(ToolTurns(requests[2].messages)) >= 1

(* ====================== properties of the forwarding ================== *)

\* the chunks a cycle has forwarded when nothing is lost, repeated or
\* reordered: the non-empty deltas of the first stream, the status chunk
\* once the tool phase is entered, the non-empty deltas of the second
\* stream, and the error chunk of a cycle that failed
ExpectedOut ==
    NonEmptyDeltas(recv1)
        \o (IF InToolPhase THEN <<MarkerText>> ELSE << >>)
        \o NonEmptyDeltas(recv2)
        \o (IF failure # "" THEN <<CycleErrorText>> ELSE << >>)

\* C12: when the first or the second completion stream raises after k text
\* chunks were forwarded, the caller has those k chunks in order, each once,
\* then exactly one error chunk, and the generator has ended: nothing
\* follows the error chunk.
C12_StreamFailureKeepsForwarded ==
    /\ failure = "first stream" =>
          /\ pc = "done"
          /\ out = NonEmptyDeltas(recv1) \o <<CycleErrorText>>
          /\ recv2 = << >>
    /\ failure = "second stream" =>
          /\ pc = "done"
          /\ out = NonEmptyDeltas(recv1) \o <<MarkerText>>
                      \o NonEmptyDeltas(recv2) \o <<CycleErrorText>>

\* the second stream raised after the two deltas "a" and "b" were forwarded
C12_Witness ==
    /\ failure = "second stream"
    /\ recv2 = <<"a", "b">>
    /\ out = <<MarkerText, "a", "b", CycleErrorText>>

\* C18: at every moment the forwarded chunks are exactly the non-empty text
\* deltas consumed so far, the first stream's before the status chunk and
\* the second stream's after it, each once and in arrival order; an empty
\* delta is never forwarded; no delta has been consumed without being
\* forwarded, and the first stream is not read once the second is.
C18_ForwardingOrder ==
    /\ out = ExpectedOut
    /\ \A i \in 1..Len(out) : out[i] # ""
    /\ recv2 # << >> => pc \in {"second", "done", "closed"}
    /\ pc = "first" => recv2 = << >>

\* the first stream held "a" and an empty delta, the second "b" then "a"
C18_Witness ==
    /\ pc = "done"
    /\ failure = ""
    /\ recv1 = <<"a", "">>
    /\ recv2 = <<"b", "a">>
    /\ out = <<"a", MarkerText, "b", "a">>

C19_StoredIsSecondPhaseText ==
    (stored # << >> /\ pc = "done" /\ failure = "" /\ Len(requests) = 2) =>
        stored[1] = Concat(NonEmptyDeltas(recv2))

(* ================ properties of two interleaved cycles ================ *)

RECURSIVE AsmAlone(_, _, _)
\* the assembler's working state after these chunks, read without pause
AsmAlone(v, a, chunks) ==
    IF chunks = << >> THEN a
    ELSE AsmAlone(v,
                  IF Head(chunks).tool_calls = << >> THEN a
                  ELSE AssembleFragment(v, a, Head(chunks).tool_calls[1], 0),
                  Tail(chunks))

RECURSIVE ResultsAlone(_, _, _)
\* the tool results of these calls under these provider outcomes
ResultsAlone(v, calls, outcomes) ==
    IF calls = << >> \/ outcomes = << >> THEN << >>
    ELSE DispatchIntent(v, Head(calls), Head(outcomes)).results
            \o ResultsAlone(v, Tail(calls), Tail(outcomes))

\* the non-empty content deltas of a sequence of chunks, in order
ChunkTexts(chunks) ==
    NonEmptyDeltas([i \in 1..Len(chunks) |-> chunks[i].content])

\* C17: whatever the interleaving of two cycles on one client, each cycle's
\* assembler state, assembled calls, tool results, second-request messages
\* and forwarded chunks are those a cycle running alone computes from the
\* chunks and provider outcomes that this cycle itself received.
C17_CyclesIndependent ==
    \A c \in Cycles :
        LET me == io[c]
            alone == AsmAlone(variant, EmptyAsm, me.in1)
            calls == FinalToolCalls(variant, alone)
            results == ResultsAlone(variant, calls, me.outcomes)
        IN  /\ me.pc = "first" =>
                  /\ cyc[c].asm = alone
                  /\ me.out = ChunkTexts(me.in1)
            /\ me.pc \in {"dispatch", "second"} =>
                  /\ cyc[c].asm.tool_calls = calls
                  /\ cyc[c].results = results
                  /\ Len(me.outcomes) = me.di - 1
            /\ (me.pc \in {"dispatch", "second", "done"} /\ calls # << >>) =>
                  me.out = ChunkTexts(me.in1) \o <<MarkerText>>
                              \o NonEmptyDeltas(me.recv2)
            /\ (me.pc \in {"second", "done"} /\ calls # << >>) =>
                  /\ Len(me.outcomes) = Len(calls)
                  /\ me.sent = FinalMessages(variant, PairMessages(c), calls, results)
            /\ (me.pc = "done" /\ calls = << >>) =>
                  /\ me.out = ChunkTexts(me.in1)
                  /\ me.sent = << >>

\* cycle 1 waits in its dispatch loop after a tool call while cycle 2,
\* started meanwhile, is half-way through a tool call of its own stream
C17_Witness ==
    /\ running = 0
    /\ io[1].pc = "dispatch"
    /\ Len(cyc[1].results) = 1
    /\ io[2].pc = "first"
    /\ Len(io[2].in1) = 2
    /\ io[2].in1[2].content = "a"
    /\ Len(cyc[2].asm.cur) = 1
    /\ cyc[2].asm.cur[1].name = "f"

(* ===================== properties of the dispatcher =================== *)

\* the provider invocations made for the call with this id
ProviderCallsFor(id) == SelectSeq(provider_calls, LAMBDA c : c.id = id)

\* the tool results recorded for the call with this id
ResultsFor(id) == SelectSeq(tool_results, LAMBDA r : r.tool_call_id = id)

\* C13 as amended: in both clients, a named call whose arguments text is
\* empty or whitespace-only is passed to the tool provider once, with an
\* empty payload; a named call whose arguments text fails to parse is not
\* passed to the provider and gets one tool result whose content is an
\* error text.  Neither ends the cycle: the loop goes on to the next call.
C13_BlankArgumentsEmptyPayload ==
    /\ failure # "tool"
    /\ \A i \in 1..(di - 1) :
          LET tc == tool_calls[i]
          IN  tc.name # "" =>
                 /\ IsBlank(tc.arguments) =>
                        /\ Len(ProviderCallsFor(tc.id)) = 1
                        /\ ProviderCallsFor(tc.id)[1].args = {}
                 /\ ~Parseable(tc.arguments) =>
                        /\ ProviderCallsFor(tc.id) = << >>
                        /\ Len(ResultsFor(tc.id)) = 1
                        /\ ResultsFor(tc.id)[1].content \in ErrorTexts
                 /\ Len(ResultsFor(tc.id)) = 1

\* a whitespace-only arguments text went to the provider as an empty
\* payload, a malformed one did not go to the provider
C13_Witness ==
    /\ di = 3
    /\ tool_calls[1].name = "f"
    /\ tool_calls[1].arguments = <<" ">>
    /\ tool_calls[2].name = "g"
    /\ tool_calls[2].arguments = <<"{">>
    /\ Len(provider_calls) = 1
    /\ provider_calls[1].id = "c1"
    /\ provider_calls[1].args = {}
    /\ Len(tool_results) = 2

\* C13 as stated: a named call whose arguments text is empty, whitespace-
\* only or fails to parse is passed to the tool provider with an empty
\* payload, and the cycle continues.
C13_UnparseableGetsEmptyPayload ==
    /\ failure # "tool"
    /\ \A i \in 1..(di - 1) :
          LET tc == tool_calls[i]
          IN  (tc.name # "" /\ (IsBlank(tc.arguments) \/ ~Parseable(tc.arguments))) =>
                 /\ Len(ProviderCallsFor(tc.id)) = 1
                 /\ ProviderCallsFor(tc.id)[1].args = {}

\* C14: in MCPClient a named call whose arguments text is malformed gets
\* exactly one tool result, carrying its id, whose content is the parse
\* error text; the loop then runs the remaining calls, every parseable
\* named call reaching the provider, and the second completion request is
\* issued.
C14_MalformedArgumentsContained ==
    variant = "stdio" =>
        /\ failure # "tool"
        /\ \A i \in 1..(di - 1) :
              LET tc == tool_calls[i]
              IN  (tc.name # "" /\ ~Parseable(tc.arguments)) =>
                     ResultsFor(tc.id) = <<ToolTurn(tc.id, ParseErrorText(tc.name))>>
        /\ di > Len(tool_calls) =>
              /\ Len(tool_results) = Len(NamedCalls(tool_calls))
              /\ Len(provider_calls) =
                    Len(SelectSeq(NamedCalls(tool_calls),
                                  LAMBDA tc : Parseable(tc.arguments)))
        /\ (pc # "dispatch" /\ failure # "second request") =>
              /\ Len(requests) = 2
              /\ ToolTurns(requests[2].messages) = tool_results

\* the first call's arguments were malformed, the second call went to the
\* provider, and the second request carries both tool turns
C14_Witness ==
    /\ variant = "stdio"
    /\ Len(requests) = 2
    /\ Len(tool_calls) = 2
    /\ tool_results[1] = ToolTurn("c1", ParseErrorText("f"))
    /\ Len(provider_calls) = 1
    /\ provider_calls[1].id = "c2"
    /\ Len(ToolTurns(requests[2].messages)) = 2

(* ======================== properties of process_query ================= *)

\* C10: after any sequence of MCPClient.process_query calls, and at every
\* step of them, conversation_history passes validate_conversation_flow:
\* every tool turn follows an assistant turn with tool_calls, and its
\* tool_call_id is an id of the nearest preceding assistant turn's
\* tool_calls.
C10_HistoryFlowValid == ValidFlow(conversation_history)

\* the turns the running or last query has added to conversation_history
QueryAdded ==
    SubSeq(conversation_history, Len(q_base) + 1, Len(conversation_history))

\* a process_query call has returned without entering the except clause
QuerySucceeded == q_pc = "idle" /\ q_count > 0 /\ session /\ q_failure = ""

\* C11: a process_query call that succeeds leaves the earlier history in
\* place and appends exactly: without tool calls, the user turn and an
\* assistant turn; with tool calls, the user turn, an assistant turn carrying
\* the tool_calls, one tool turn per named call in call order, and a final
\* assistant turn.  It returns the content of the last assistant turn, which
\* with tool calls is the second completion's content.
C11_SuccessfulQuerySuffix ==
    QuerySucceeded =>
        LET named == NamedCalls(q_calls)
            ret == q_returned[Len(q_returned)]
            added == QueryAdded
        IN  /\ Len(conversation_history) >= Len(q_base)
            /\ SubSeq(conversation_history, 1, Len(q_base)) = q_base
            /\ IF q_calls = << >>
               THEN /\ added = <<UserTurn, [role |-> "assistant", content |-> ret]>>
                    /\ ret = FirstAnswerText
               ELSE /\ Len(added) = Len(named) + 3
                    /\ added[1] = UserTurn
                    /\ added[2].role = "assistant"
                    /\ added[2].tool_calls = q_calls
                    /\ \A i \in 1..Len(named) :
                          /\ added[2 + i].role = "tool"
                          /\ named[i].id # "" =>
                                added[2 + i].tool_call_id = named[i].id
                    /\ added[Len(added)] = [role |-> "assistant", content |-> ret]
                    /\ ret = FinalAnswerText
                    /\ ret # FirstAnswerText

\* the second query succeeded with a call without a name and a named call:
\* one tool turn was added after an earlier exchange
C11_Witness ==
    /\ QuerySucceeded
    /\ q_count = 2
    /\ Len(q_base) = 2
    /\ Len(q_calls) = 2
    /\ q_calls[1].name = ""
    /\ q_calls[2].name = "f"
    /\ Len(QueryAdded) = 4
    /\ q_returned[2] = FinalAnswerText

\* C20: in _process_messages a tool call whose arguments are malformed or
\* whose provider invocation raises does not end the query: no query fails
\* because of a tool, every named call already run has its tool turn, and
\* after the loop the second completion request is issued.
C20_ToolFailureContained ==
    /\ q_failure # "tool"
    /\ q_pc = "tools" =>
          Len(QueryAdded) = 2 + Len(NamedCalls(SubSeq(q_calls, 1, q_i - 1)))

\* new is old with turns added at the end
IsExtension(old, new) ==
    /\ Len(new) >= Len(old)
    /\ SubSeq(new, 1, Len(old)) = old

\* this step ends a query in the except clause of _process_messages
EntersExcept ==
    /\ Len(q_returned') = Len(q_returned) + 1
    /\ q_returned'[Len(q_returned')] = CycleErrorText

\* C21 as stated: at every step of a process_query cycle, on the success
\* path and on the failure path, conversation_history extends its previous
\* value.
C21_HistoryAppendOnly ==
    [][IsExtension(conversation_history, conversation_history')]_vars

\* C21: every step of a process_query cycle that does not enter the except
\* clause only adds turns at the end of conversation_history; the step that
\* enters the except clause empties it.
C21_AppendOnlyUntilFailure ==
    [][IF EntersExcept
       THEN conversation_history' = << >>
       ELSE IsExtension(conversation_history, conversation_history')]_vars

\* a first query added its turns, a second one failed in its tool loop and
\* the history, which held at least four turns, is empty
C21_Witness ==
    /\ q_count = 2
    /\ Len(q_base) >= 2
    /\ q_failure = "tool"
    /\ q_pc = "idle"
    /\ conversation_history = << >>

(* ==================== properties of the streaming routes ============== *)

TerminalTypes == {"complete", "error"}

\* the positions of the terminal markers among the events sent
TerminalPositions == {i \in 1..Len(events) : events[i].type \in TerminalTypes}

\* the cycle ended in failure: its except clause ran, or there was no session
CycleFailed == pc = "done" /\ (failure # "" \/ ~session)

\* C22: the events of one streamed request end with exactly one terminal
\* marker, "complete" when the cycle completed and "error" when it failed;
\* the two markers are never both sent, and no content event follows the
\* terminal marker.
C22_OneTerminalMarker ==
    /\ \A i \in TerminalPositions : i = Len(events)
    /\ route_pc = "ended" =>
          /\ TerminalPositions = {Len(events)}
          /\ events[Len(events)].type =
                IF CycleFailed THEN "error" ELSE "complete"

(* ==================== properties of the cycle's phases ================ *)

\* the named calls that have a tool result
Answered(calls) ==
    \A i \in 1..Len(calls) :
        calls[i].name # "" =>
            \E k \in 1..Len(tool_results) :
                tool_results[k].tool_call_id = calls[i].id

\* C29: a cycle issues at most two completion requests; when the second
\* has been issued the dispatch loop has passed every call and every named
\* call has its result; the second request carries no tools; and while the
\* second stream is read, whatever its chunks hold, no tool is invoked, no
\* result is added, no call is assembled and no request is issued.
C29_TwoRequestsAtMost ==
    /\ [](/\ Len(requests) <= 2
          /\ Len(requests) = 2 =>
                /\ requests[1].tools
                /\ ~requests[2].tools
                /\ di > Len(tool_calls)
                /\ Answered(tool_calls)
          /\ frags2 > 0 => Len(requests) = 2)
    /\ [][Len(requests) = 2 =>
             UNCHANGED <<requests, provider_calls, tool_results, tool_calls,
                         current_tool_call, di>>]_vars

\* the second stream held a delta and a tool-call fragment and has ended:
\* the one call of the first stream was invoked once and two requests were
\* issued
C29_Witness ==
    /\ pc = "done"
    /\ failure = ""
    /\ frags2 = 1
    /\ Len(recv2) = 2
    /\ Len(requests) = 2
    /\ Len(provider_calls) = 1
    /\ Len(tool_results) = 1

\* the position of a phase in the order of the cycle
PhaseRank(p) ==
    CASE p = "idle" -> 0
      [] p = "first" -> 1
      [] p = "dispatch" -> 2
      [] p = "second" -> 3
      [] OTHER -> 4

\* C30: the cycle passes through its phases in the order first stream,
\* dispatch, second stream, end.  While the first stream is read nothing is
\* dispatched, even when a complete call has been received; the second
\* request is issued from the dispatch phase only; and once the cycle has
\* ended, normally, with an error or by being closed, nothing changes any
\* more: no request, no dispatch, no chunk.
C30_PhaseOrder ==
    /\ [](/\ pc \in {"idle", "first"} =>
                /\ provider_calls = << >>
                /\ tool_results = << >>
                /\ Len(requests) <= 1
          /\ pc = "dispatch" => Len(requests) = 1 /\ recv2 = << >>
          /\ pc = "second" => Len(requests) = 2)
    /\ [][/\ PhaseRank(pc') >= PhaseRank(pc)
          /\ provider_calls' # provider_calls => pc = "dispatch"
          /\ Len(requests') > 1 /\ requests' # requests => pc = "dispatch"
          /\ pc \in {"done", "closed"} =>
                UNCHANGED <<out, requests, provider_calls, tool_results,
                            recv1, recv2, pc>>]_vars

\* the call "f" with the arguments "{}" is complete and two text deltas
\* were read; the first stream is still open and nothing was dispatched
C30_Witness ==
    /\ pc = "first"
    /\ Len(current_tool_call) = 1
    /\ current_tool_call[1].name = "f"
    /\ JsonLoads(current_tool_call[1].arguments).ok
    /\ Len(recv1) = 2
    /\ provider_calls = << >>
    /\ ENABLED FirstStreamEnds

(* ------------------- failures of the first stream -------------------- *)

FirstFailed == failure \in {"first request", "first stream"}

\* C31: when the first completion fails, at the request or while the stream
\* is read, even after fragments were assembled, the cycle is at its end, no
\* tool was invoked, no second request was issued, the assembled calls were
\* never finalized or copied into a second request, and the output is the
\* forwarded deltas followed by the one error chunk.
C31_FirstFailureEndsCycle ==
    FirstFailed =>
        /\ pc = "done"
        /\ provider_calls = << >>
        /\ tool_results = << >>
        /\ Len(requests) <= 1
        /\ \A i \in 1..Len(requests) : requests[i].tools
        /\ assembled = << >>
        /\ final_messages = << >>
        /\ recv2 = << >>
        /\ out = NonEmptyDeltas(recv1) \o <<CycleErrorText>>

C31_Witness ==
    /\ failure = "first stream"
    /\ nfrags >= 1
    /\ current_tool_call # << >>
    /\ current_tool_call[1].name = "f"
    /\ pc = "done"

(* ---------------------------- termination ----------------------------- *)

\* C32: with finite completion streams, tool calls that return or raise
\* and a caller that keeps pulling, the cycle reaches its end and stays
\* there; at the end nothing more is yielded, and an end by failure has the
\* error chunk as its last and only error chunk.
C32_CycleTerminates ==
    /\ <>[](pc = "done")
    /\ [][pc = "done" => out' = out]_vars
    /\ [](pc = "done" /\ failure # "" =>
            /\ out # << >>
            /\ out[Len(out)] = CycleErrorText
            /\ \A i \in 1..(Len(out) - 1) : out[i] # CycleErrorText)

C32_Witness ==
    /\ pc = "done"
    /\ failure = ""
    /\ Len(requests) = 2
    /\ Len(provider_calls) = 1
    /\ recv2 = <<"a", "b">>

(* -------------------- process_query calls at once --------------------- *)

\* C33: when two process_query calls of one client interleave at their
\* awaited tool calls, every tool turn of conversation_history still follows
\* an assistant turn whose tool_calls hold its id.
C33_InterleavedHistoryValid == ValidFlow(conversation_history)

(* ------------------ the two assemblers side by side ------------------- *)

RECURSIVE AssembleAll(_, _, _)
\* the working state after the fragments frags, from the working state a
AssembleAll(v, a, frags) ==
    IF frags = << >> THEN a
    ELSE AssembleAll(v, AssembleFragment(v, a, Head(frags), 0), Tail(frags))

\* C34: on every fragment sequence the assembler of MCPClient and that of
\* HTTPMCPClient are in the same working state, so that before
\* deduplication they hold the same calls (as many, with the same names and
\* arguments), and their start conditions decide alike on every fragment
\* that can come next.
C34_AssemblersAgree ==
    pc = "idle" =>
        LET s == AssembleAll("stdio", EmptyAsm, fed)
            h == AssembleAll("http", EmptyAsm, fed)
            mine == [tool_calls |-> tool_calls, cur |-> current_tool_call,
                     idx |-> current_tool_index]
        IN  /\ mine = AssembleAll(variant, EmptyAsm, fed)
            /\ s = h
            /\ Len(FinalizeCalls(s)) = Len(FinalizeCalls(h))
            /\ \A i \in 1..Len(FinalizeCalls(s)) :
                  /\ FinalizeCalls(s)[i].name = FinalizeCalls(h)[i].name
                  /\ FinalizeCalls(s)[i].arguments =
                        FinalizeCalls(h)[i].arguments
            /\ \A frag \in RunFrags :
                  StartsNewStdio(s.cur, s.idx, frag.index)
                      <=> StartsNewHttp(h.cur, h.idx, frag.index)

C34_Witness ==
    /\ pc = "idle"
    /\ variant = "http"
    /\ Len(fed) = 3
    /\ fed[1].index = NoIndex
    /\ fed[2].index = 0
    /\ fed[3].index = NoIndex
    /\ Len(tool_calls) = 1
    /\ current_tool_call[1].arguments = <<"{", "}">>

(* ----------------------- the deduplication pass ----------------------- *)

RECURSIVE FirstAppearances(_, _)
\* the ids of calls in the order in which each appears first, given the
\* ids seen so far
FirstAppearances(calls, seen) ==
    IF calls = << >> THEN << >>
    ELSE IF Head(calls).id \in seen
         THEN FirstAppearances(Tail(calls), seen)
         ELSE <<Head(calls).id>>
                  \o FirstAppearances(Tail(calls), seen \cup {Head(calls).id})

\* C35: the deduplication of MCPClient lists one call per id of the
\* finalized list, in the order in which the ids first appeared there;
\* a finalized list with pairwise distinct ids comes out unchanged, and
\* deduplicating the outcome again changes nothing.
C35_DedupOrderAndIdempotence ==
    (pc = "assembled" /\ variant = "stdio") =>
        /\ CallIds(tool_calls) = FirstAppearances(assembled, {})
        /\ DistinctIds(tool_calls)
        /\ DistinctIds(assembled) => tool_calls = assembled
        /\ Deduplicate(tool_calls) = tool_calls

\* the id "c1" came first and third, another id in between
C35_Witness ==
    /\ pc = "assembled"
    /\ variant = "stdio"
    /\ Len(assembled) = 3
    /\ assembled[1].id = "c1"
    /\ assembled[2].id # "c1"
    /\ assembled[3].id = "c1"
    /\ CallIds(tool_calls) = <<"c1", assembled[2].id>>

(* -------------------- the caller's list and history -------------------- *)

\* C36: from the moment a cycle has its messages until it returns, by
\* _process_messages_stream or by _process_messages, normally or with an
\* error, no step changes the list the caller passed; the list sent with
\* the second request is that list with the assistant and tool turns added
\* at its end.
C36_CallerMessagesUntouched ==
    /\ [][(pc # "idle" \/ q_pc = "tools") => messages' = messages]_vars
    /\ [](final_messages # << >> =>
            /\ IsExtension(messages, final_messages)
            /\ Len(final_messages) > Len(messages))
    /\ [](q_pc = "tools" =>
            /\ IsExtension(messages, q_final_messages)
            /\ Len(q_final_messages) > Len(messages))

\* a streamed cycle has ended after a tool ran: the second request carried
\* the assistant turn and a tool turn, the caller's list is the first
\* request's
C36_Witness ==
    /\ pc = "done"
    /\ failure = ""
    /\ Len(requests) = 2
    /\ messages = requests[1].messages
    /\ Len(requests[2].messages) = Len(messages) + 2
    /\ requests[2].messages[Len(messages) + 2].role = "tool"

\* this step belongs to a non-streamed call: it starts one or runs one on
QueryStep == q_count' = q_count + 1 \/ q_pc = "tools"

\* C37: conversation_history changes only in steps of a process_query
\* call, so that process_query_with_context and the streamed cycle leave it
\* as it was in every outcome; a process_query call that fails empties it.
C37_OnlyProcessQueryWritesHistory ==
    /\ [][conversation_history' # conversation_history =>
              (q_update /\ QueryStep)]_vars
    /\ [][(EntersExcept /\ q_update) => conversation_history' = << >>]_vars

\* after a process_query call recorded two turns, a call of
\* process_query_with_context ran two tools and got its final answer, and
\* the history still holds the two turns
C37_Witness ==
    /\ ~q_update
    /\ q_count = 2
    /\ q_pc = "idle"
    /\ q_failure = ""
    /\ Len(q_provider_calls) = 2
    /\ q_returned[2] = FinalAnswerText
    /\ Len(conversation_history) = 2
    /\ conversation_history = q_base

\* C38: a client without a session answers every call with the
\* not-connected text: the non-streamed calls return it, the streamed cycle
\* yields it as its only chunk and ends; no completion request is issued,
\* no tool is invoked and conversation_history stays empty.
C38_NotConnectedDoesNothing ==
    ~session =>
        /\ requests = << >>
        /\ q_requests = << >>
        /\ provider_calls = << >>
        /\ q_provider_calls = << >>
        /\ conversation_history = << >>
        /\ Len(q_returned) = q_count
        /\ \A i \in 1..Len(q_returned) : q_returned[i] = NotConnectedText
        /\ q_pc = "idle"
        /\ pc \in {"idle", "done"}
        /\ out = IF pc = "done" THEN <<NotConnectedText>> ELSE << >>

\* process_query_with_context was called, then the streamed entry point
C38_Witness ==
    /\ ~session
    /\ ~q_update
    /\ q_count = 1
    /\ q_returned = <<NotConnectedText>>
    /\ pc = "done"
    /\ out = <<NotConnectedText>>

(* ------------------------ the HTTP sessions -------------------------- *)

\* C39: after connect_to_server has returned False or cleanup has
\* completed, session is None and a streamed query that follows yields the
\* not-connected text only; and at no time is more than one of the aiohttp
\* sessions the client opened left unclosed.
C39_OneSessionAtMost ==
    /\ conn.last \in {"False", "cleanup"} =>
          /\ conn.session = 0
          /\ ~session
          /\ pc = "done" => out = <<NotConnectedText>>
    /\ Cardinality(conn.unclosed) <= 1

====
